---- MODULE Spec2Model ----
(***************************************************************************)
(* Model of src/diversity_utils.py (Python 2, numpy): the masked tensor    *)
(* algebra of the statistics routines.                                     *)
(*                                                                         *)
(* An allele-count tensor is a sequence of sites; a site is a sequence     *)
(* over samples of pairs <<alt, ref>> (allele index 0 is the alternate     *)
(* allele, index 1 the reference).  Real numbers are exact rationals       *)
(* <<numerator, denominator>> in lowest terms with a positive denominator. *)
(* The module is Python 2 (print statements, xrange), so `/` between two   *)
(* integer arrays is floor division; `dtype` records whether the arrays    *)
(* handed in hold int64 or float64 numbers.                                *)
(***************************************************************************)
EXTENDS Integers, Sequences, FiniteSets, TLC

VARIABLES
    pc,                 \* "start" | "loop" | "gene" | "done"
    routine,            \* name of the function being executed
    dtype,              \* "int64" | "float64": dtype of the allele-count arrays
    args,               \* record of the call's arguments
    genes_left,         \* genes the outer for-loop has still to visit
    gene_name,          \* gene of the current outer iteration
    types_left,         \* variant types the inner for-loop has still to visit
    matrix,             \* fixation_matrix | new_snp_matrix | pi_matrix
    avg_pi_matrix,      \* calculate_pi_matrix only
    passed_sites,       \* accumulated passed-sites matrix
    allele_counts,      \* local: the allele-count tensor last loaded
    freqs,              \* local: the masked ratio as last computed, before any clamping
    divisors,           \* every denominator the call has divided by
    locals,             \* record of further local variables of the call
    ret                 \* returned value

vars == <<pc, routine, dtype, args, genes_left, gene_name, types_left,
          matrix, avg_pi_matrix, passed_sites, allele_counts, freqs, divisors, locals, ret>>

None == "None"

----------------------------------------------------------------------------
(* Bounds of the model *)

MaxSites == 2       \* sites per allele-count tensor
MaxReads == 3       \* total number of reads in one allele-count tensor
MaxSpectrumLen == 4 \* bins of a site-frequency spectrum
MaxBinCount == 2    \* sites counted in one bin of a spectrum
MaxPosition == 5    \* positions on a line of the samples of a distance matrix
MaxCellDepth == 1   \* reads of one sample at a site of a tensor tested for consistency

Samples == {1, 2, 3}
Alleles == {1, 2}   \* 1: alternate (numpy index 0), 2: reference (index 1)

----------------------------------------------------------------------------
(* Exact rational arithmetic *)

Abs(x) == IF x < 0 THEN -x ELSE x

RECURSIVE GCD(_, _)
GCD(a, b) == IF b = 0 THEN a ELSE GCD(b, a % b)

\* n/d in lowest terms, d # 0
Rat(n, d) ==
    LET g == GCD(Abs(n), Abs(d))
        s == IF d < 0 THEN -1 ELSE 1
    IN  <<(s * n) \div g, (s * d) \div g>>

Zero == <<0, 1>>
NaN == <<0, 0>>        \* the float 0.0/0
One == <<1, 1>>
Half == <<1, 2>>
FromInt(n) == <<n, 1>>

RAdd(x, y) == Rat(x[1] * y[2] + y[1] * x[2], x[2] * y[2])
RSub(x, y) == Rat(x[1] * y[2] - y[1] * x[2], x[2] * y[2])
RMul(x, y) == Rat(x[1] * y[1], x[2] * y[2])
RLt(x, y) == x[1] * y[2] < y[1] * x[2]
RLe(x, y) == x[1] * y[2] <= y[1] * x[2]
RAbs(x) == <<Abs(x[1]), x[2]>>
RMin(x, y) == IF RLt(y, x) THEN y ELSE x

RECURSIVE RSum(_, _)
\* sum of f[i] over the finite set S
RSum(f, S) ==
    IF S = {} THEN Zero
    ELSE LET i == CHOOSE j \in S : TRUE IN RAdd(f[i], RSum(f, S \ {i}))

RECURSIVE ISum(_, _)
ISum(f, S) ==
    IF S = {} THEN 0
    ELSE LET i == CHOOSE j \in S : TRUE IN f[i] + ISum(f, S \ {i})

\* numpy.around: round half to even
around(x) ==
    LET f == (2 * x[1] + x[2]) \div (2 * x[2])
        tie == (2 * x[1] + x[2]) % (2 * x[2]) = 0
    IN  IF tie /\ f % 2 # 0 THEN f - 1 ELSE f

\* x / y for numpy arrays under Python 2: floor division when both operands
\* are integer arrays, true division otherwise
divide(x, y, dt) == IF dt = "int64" THEN FromInt(x \div y) ELSE Rat(x, y)

Bool(b) == IF b THEN 1 ELSE 0

----------------------------------------------------------------------------
(* Allele-count tensors *)

num_sites(t) == Len(t)
SitesOf(t) == 1..num_sites(t)
SamplesOf(t) == IF Len(t) = 0 THEN {} ELSE 1..Len(t[1])
\* num_sites, num_samples, num_alleles = allele_counts_matrix.shape (a tensor
\* without sites is of shape (0, 3, 2))
num_samples(t) == IF Len(t) = 0 THEN Cardinality(Samples) ELSE Len(t[1])

\* depths = allele_counts.sum(axis=2)
depth(t, s, j) == t[s][j][1] + t[s][j][2]
depths(t) == [s \in SitesOf(t) |-> [j \in SamplesOf(t) |-> depth(t, s, j)]]

ZeroTensor(n, J) == [s \in 1..n |-> [j \in 1..J |-> <<0, 0>>]]

AddRead(t, s, j, a) ==
    [t EXCEPT ![s][j][a] = @ + 1]

RECURSIVE TensorsWithReads(_, _, _)
\* all n x J tensors holding exactly k reads
TensorsWithReads(n, J, k) ==
    IF k = 0 \/ n = 0 THEN {ZeroTensor(n, J)}
    ELSE {AddRead(t, s, j, a) :
            t \in TensorsWithReads(n, J, k - 1), s \in 1..n, j \in 1..J, a \in Alleles}

\* the (alt, ref) counts of a sample with at most MaxCellDepth reads at a site
ShallowCells == {c \in (0..MaxCellDepth) \X (0..MaxCellDepth) : c[1] + c[2] <= MaxCellDepth}

\* a sample that is uncovered at a site, or covered by one read of either allele
SingleReadCells == {c \in {0, 1} \X {0, 1} : c[1] + c[2] <= 1}

\* the two-site tensors of such samples: both sites can be polymorphic
ShallowTensors == [1..2 -> [Samples -> SingleReadCells]]

Tensors ==
    UNION {TensorsWithReads(n, Cardinality(Samples), k) : n \in 0..MaxSites, k \in 0..MaxReads}
    \cup ShallowTensors

\* the tensors of at most two sites
BlockTensors ==
    UNION {TensorsWithReads(n, Cardinality(Samples), k) : n \in {0, 1, 2}, k \in 0..MaxReads}

\* the worked example of the documentation: one site, four samples
WorkedExample == << << <<3, 0>>, <<0, 3>>, <<3, 0>>, <<2, 1>> >> >>

RECURSIVE SelectRows(_, _, _)
\* m[keep, :] : the rows s of m with keep[s], in their order
SelectRows(m, keep, s) ==
    IF s > Len(m) THEN <<>>
    ELSE (IF keep[s] THEN <<m[s]>> ELSE <<>>) \o SelectRows(m, keep, s + 1)

----------------------------------------------------------------------------
(* calculate_consensus_genotypes *)

\* freqs = allele_counts_matrix[:,:,0]*1.0/(depths+(depths==0))
consensus_freq(t, s, j) == Rat(t[s][j][1], depth(t, s, j) + Bool(depth(t, s, j) = 0))
consensus_freqs(t) == [s \in SitesOf(t) |-> [j \in SamplesOf(t) |-> consensus_freq(t, s, j)]]

passed_sites_matrix_of_depth_two(t) ==
    [s \in SitesOf(t) |-> [j \in SamplesOf(t) |-> depth(t, s, j) > 1]]

\* passed_sites_matrix = (depths>0)
passed_sites_matrix(t) ==
    [s \in SitesOf(t) |-> [j \in SamplesOf(t) |-> depth(t, s, j) > 0]]

\* genotype_matrix = numpy.around(freqs)
genotype_matrix(t) ==
    [s \in SitesOf(t) |-> [j \in SamplesOf(t) |-> around(consensus_freq(t, s, j))]]

\* prevalences = genotype_matrix.sum(axis=1)
prevalences(t, s) == ISum([j \in SamplesOf(t) |-> around(consensus_freq(t, s, j))], SamplesOf(t))

\* min_prevalences = 0.5
min_prevalences == Half

max_prevalences_all_samples(t, s) == RSub(FromInt(Cardinality(SamplesOf(t))), Half)

\* max_prevalences = (passed_sites_matrix).sum(axis=1)-0.5
max_prevalences(t, s) ==
    RSub(FromInt(ISum([j \in SamplesOf(t) |-> Bool(depth(t, s, j) > 0)], SamplesOf(t))), Half)

\* polymorphic_sites = (prevalences>min_prevalences)*(prevalences<max_prevalences)
polymorphic_sites(t) ==
    [s \in SitesOf(t) |->
        /\ RLt(min_prevalences, FromInt(prevalences(t, s)))
        /\ RLt(FromInt(prevalences(t, s)), max_prevalences(t, s))]

\* return genotype_matrix[polymorphic_sites,:], passed_sites_matrix[polymorphic_sites,:]
calculate_consensus_genotypes(t) ==
    [genotype_matrix |-> SelectRows(genotype_matrix(t), polymorphic_sites(t), 1),
     passed_sites_matrix |-> SelectRows(passed_sites_matrix(t), polymorphic_sites(t), 1)]

----------------------------------------------------------------------------
(* Matrices over samples: m[j][l] *)

ZeroMatrix == [j \in Samples |-> [l \in Samples |-> Zero]]
zeros_like(m) == [j \in DOMAIN m |-> [l \in DOMAIN m[j] |-> Zero]]
MAdd(m, c) == [j \in DOMAIN m |-> [l \in DOMAIN m[j] |-> RAdd(m[j][l], c[j][l])]]

----------------------------------------------------------------------------
(* calculate_fixation_matrix: contribution of one block *)

\* alt_freqs = allele_counts[:,:,0]/(depths+(depths==0))
alt_freq(t, s, j, dt) == divide(t[s][j][1], depth(t, s, j) + Bool(depth(t, s, j) = 0), dt)
alt_freqs(t, dt) == [s \in SitesOf(t) |-> [j \in SamplesOf(t) |-> alt_freq(t, s, j, dt)]]

\* alt_freqs[alt_freqs<min_freq] = 0.0 ; alt_freqs[alt_freqs>=(1-min_freq)] = 1.0
clamp(f, min_freq) ==
    LET low == IF RLt(f, min_freq) THEN Zero ELSE f
    IN  IF RLe(RSub(One, min_freq), low) THEN One ELSE low

\* passed_depths = (depths>0)[:,:,None]*(depths>0)[:,None,:]
passed_depths(t, s, j, l) == depth(t, s, j) > 0 /\ depth(t, s, l) > 0

\* delta_freq = numpy.fabs(alt_freqs[:,:,None]-alt_freqs[:,None,:])
\* delta_freq[passed_depths==0] = 0 ; delta_freq[delta_freq<min_change] = 0
delta_freq(t, s, j, l, min_freq, min_change, dt) ==
    LET d == RAbs(RSub(clamp(alt_freq(t, s, j, dt), min_freq),
                       clamp(alt_freq(t, s, l, dt), min_freq)))
    IN  IF ~passed_depths(t, s, j, l) THEN Zero
        ELSE IF RLt(d, min_change) THEN Zero
        ELSE d

\* delta_freq.sum(axis=0)
fixation_contribution(t, min_freq, min_change, dt) ==
    [j \in SamplesOf(t) |-> [l \in SamplesOf(t) |->
        RSum([s \in SitesOf(t) |-> delta_freq(t, s, j, l, min_freq, min_change, dt)],
             SitesOf(t))]]

----------------------------------------------------------------------------
(* calculate_new_snp_matrix: contribution of one block *)

\* mafs = numpy.fmin(freqs,1-freqs)
maf(t, s, j, dt) == RMin(alt_freq(t, s, j, dt), RSub(One, alt_freq(t, s, j, dt)))

one_sided_new_snps(t, s, j, l, min_freq, max_freq, dt) ==
    /\ RLt(maf(t, s, j, dt), min_freq) /\ RLt(max_freq, maf(t, s, l, dt))
    /\ passed_depths(t, s, j, l)

total_new_snps_common_below(t, s, j, l, min_freq, max_freq, dt) ==
    /\ \/ RLt(maf(t, s, j, dt), min_freq) /\ RLt(maf(t, s, l, dt), max_freq)
       \/ RLt(maf(t, s, j, dt), max_freq) /\ RLt(maf(t, s, l, dt), min_freq)
    /\ passed_depths(t, s, j, l)

\* new_snps_1 = (mafs[:,:,None]<min_freq)*(mafs[:,None,:]>max_freq)
\* new_snps_2 = (mafs[:,:,None]>max_freq)*(mafs[:,None,:]<min_freq)
\* total_new_snps = new_snps_1+new_snps_2 ; total_new_snps[passed_depths==0] = 0
total_new_snps(t, s, j, l, min_freq, max_freq, dt) ==
    /\ \/ RLt(maf(t, s, j, dt), min_freq) /\ RLt(max_freq, maf(t, s, l, dt))
       \/ RLt(max_freq, maf(t, s, j, dt)) /\ RLt(maf(t, s, l, dt), min_freq)
    /\ passed_depths(t, s, j, l)

\* total_new_snps.sum(axis=0)
new_snp_contribution(t, min_freq, max_freq, dt) ==
    [j \in SamplesOf(t) |-> [l \in SamplesOf(t) |->
        FromInt(ISum([s \in SitesOf(t) |->
                        Bool(total_new_snps(t, s, j, l, min_freq, max_freq, dt))],
                     SitesOf(t)))]]

----------------------------------------------------------------------------
(* calculate_pi_matrix: contribution of one block *)

\* freqs = allele_counts/(depths+(depths<0.1))[:,:,None]
pi_freq(t, s, j, k, dt) == divide(t[s][j][k], depth(t, s, j) + Bool(depth(t, s, j) = 0), dt)

\* the denominator depths-1+2*(depths<1.1)
self_depth(d) == d - 1 + 2 * Bool(d <= 1)

\* self_freqs = (allele_counts-1)/(depths-1+2*(depths<1.1))[:,:,None]
self_freq(t, s, j, k, dt) == divide(t[s][j][k] - 1, self_depth(depth(t, s, j)), dt)

\* self_pis = ((depths>0)-(freqs*self_freqs).sum(axis=2))
self_pis(t, s, j, dt) ==
    RSub(FromInt(Bool(depth(t, s, j) > 0)),
         RSum([k \in Alleles |-> RMul(pi_freq(t, s, j, k, dt), self_freq(t, s, j, k, dt))],
              Alleles))

\* (depths>0)*1.0
covered(t, s, j) == FromInt(Bool(depth(t, s, j) > 0))

\* numpy.einsum('ij,il',(depths>0)*1.0,(depths>0)*1.0)-numpy.einsum('ijk,ilk',freqs,freqs)
between_pi(t, j, l, dt) ==
    RSub(RSum([s \in SitesOf(t) |-> RMul(covered(t, s, j), covered(t, s, l))], SitesOf(t)),
         RSum([s \in SitesOf(t) |->
                 RSum([k \in Alleles |->
                         RMul(pi_freq(t, s, j, k, dt), pi_freq(t, s, l, k, dt))], Alleles)],
              SitesOf(t)))

\* numpy.einsum('ij,il',self_pis,(depths>0)*1.0)
one_sided_self_pi(t, j, l, dt) ==
    RSum([s \in SitesOf(t) |-> RMul(self_pis(t, s, j, dt), covered(t, s, l))], SitesOf(t))

\* (numpy.einsum('ij,il',self_pis,(depths>0)*1.0)+numpy.einsum('ij,il',(depths>0)*1.0,self_pis))/2
gene_avg_pi_matrix(t, dt) ==
    [j \in SamplesOf(t) |-> [l \in SamplesOf(t) |->
        RMul(Half, RAdd(one_sided_self_pi(t, j, l, dt), one_sided_self_pi(t, l, j, dt)))]]

pi_matrix_without_diagonal_fix(t, dt) ==
    [j \in SamplesOf(t) |-> [l \in SamplesOf(t) |-> between_pi(t, j, l, dt)]]

\* gene_pi_matrix[diagonal_idxs] = gene_avg_pi_matrix[diagonal_idxs]
gene_pi_matrix(t, dt) ==
    [j \in SamplesOf(t) |-> [l \in SamplesOf(t) |->
        IF j = l THEN gene_avg_pi_matrix(t, dt)[j][l] ELSE between_pi(t, j, l, dt)]]

----------------------------------------------------------------------------
(* calculate_pooled_freqs: one gene *)

\* (depths>0).sum(axis=1)
num_covered(t, s) == ISum([j \in SamplesOf(t) |-> Bool(depth(t, s, j) > 0)], SamplesOf(t))

\* the denominator of gene_pooled_freqs
pooled_denominator(t, s) == num_covered(t, s)

\* freqs = allele_counts/(depths+(depths==0))[:,:,None]
\* gene_pooled_freqs = freqs[:,:,0].sum(axis=1)/(depths>0).sum(axis=1)
\* (0/0 is nan for floats and 0 for integer arrays)
gene_pooled_freqs(t, dt) ==
    [s \in SitesOf(t) |->
        LET total == RSum([j \in SamplesOf(t) |-> pi_freq(t, s, j, 1, dt)], SamplesOf(t))
            n == pooled_denominator(t, s)
        IN  IF n = 0 THEN (IF dt = "int64" THEN Zero ELSE NaN)
            ELSE IF dt = "int64" THEN FromInt(total[1] \div n)
            ELSE RMul(total, Rat(1, n))]

pooled_divisors(t) ==
    {depth(t, s, j) + Bool(depth(t, s, j) = 0) : s \in SitesOf(t), j \in SamplesOf(t)}
    \cup {pooled_denominator(t, s) : s \in SitesOf(t)}

pi_divisors(t) ==
    UNION {{depth(t, s, j) + Bool(depth(t, s, j) = 0), self_depth(depth(t, s, j)), 2} :
           s \in SitesOf(t), j \in SamplesOf(t)}

----------------------------------------------------------------------------
(* calculate_pca_coordinates *)

\* (passed_sites_matrix).sum(axis=1): the sum of a boolean array counts
Zl_denominator(P, l) == ISum([i \in DOMAIN P[l] |-> Bool(P[l][i])], DOMAIN P[l])

\* Zl = (genotype_matrix*passed_sites_matrix).sum(axis=1)/(passed_sites_matrix).sum(axis=1)
Zl(G, P, l) ==
    IF Zl_denominator(P, l) = 0 THEN NaN
    ELSE Rat(ISum([i \in DOMAIN P[l] |-> G[l][i] * Bool(P[l][i])], DOMAIN P[l]),
             Zl_denominator(P, l))

\* Zli = (genotype_matrix-Zl[:,None])*passed_sites_matrix
Zli(G, P, l, i) ==
    IF Zl(G, P, l) = NaN THEN NaN
    ELSE RMul(RSub(FromInt(G[l][i]), Zl(G, P, l)), FromInt(Bool(P[l][i])))

\* numpy.einsum('li,lj',passed_sites_matrix, passed_sites_matrix): the mask is
\* a boolean array, for which einsum takes the OR over l of the ANDs, so the
\* entry is True (1 as a divisor) when samples i and j share a site and False
\* (0) otherwise, never the number of shared sites
Mij_denominator(P, i, j) == Bool(\E l \in DOMAIN P : P[l][i] /\ P[l][j])

\* Mij = numpy.einsum('li,lj',Zli,Zli)/numpy.einsum('li,lj',passed_sites_matrix, passed_sites_matrix)
\* for J samples
Mij(G, P, J) ==
    [i \in 1..J |-> [j \in 1..J |->
        IF Mij_denominator(P, i, j) = 0 \/ \E l \in DOMAIN P : Zl(G, P, l) = NaN THEN NaN
        ELSE RMul(RSum([l \in DOMAIN P |-> RMul(Zli(G, P, l, i), Zli(G, P, l, j))], DOMAIN P),
                  Rat(1, Mij_denominator(P, i, j)))]]

\* scipy's eigh checks its argument with asarray_chkfinite
is_finite(M) == \A i \in DOMAIN M : \A j \in DOMAIN M[i] : M[i][j] # NaN

\* evals.sum(): the eigenvalues of a matrix sum to its trace
evals_sum(M) == RSum([i \in DOMAIN M |-> M[i][i]], DOMAIN M)

\* every denominator of lines 38, 42 and 54, as rationals
pca_divisors(G, P, J) ==
    {FromInt(Zl_denominator(P, l)) : l \in DOMAIN P}
    \cup {FromInt(Mij_denominator(P, i, j)) : i \in 1..J, j \in 1..J}
    \cup (IF is_finite(Mij(G, P, J)) THEN {evals_sum(Mij(G, P, J))} ELSE {})

(* evals, evecs = eigh(Mij) and the lines after it: the eigenvalues and       *)
(* eigenvectors of a rational matrix are not rational in general, so the     *)
(* returned coordinates and variances are kept as the matrix they are the    *)
(* decomposition of; a matrix with a nan entry makes eigh raise.             *)
calculate_pca_coordinates(G, P, J) ==
    IF is_finite(Mij(G, P, J))
    THEN [eigh_of |-> Mij(G, P, J), evals_sum |-> evals_sum(Mij(G, P, J))]
    ELSE [raised |-> "ValueError"]

----------------------------------------------------------------------------
(* The maps handed to the accumulating routines *)

PassedA == [j \in Samples |-> [l \in Samples |-> IF j = l THEN 5 ELSE 4]]
PassedB == [j \in Samples |-> [l \in Samples |-> IF j = l THEN 3 ELSE j + l]]

Block(t, P) == [alleles |-> t, sites |-> P]

BlockX == Block(<< << <<1, 0>>, <<1, 2>>, <<1, 1>> >> >>, PassedA)
BlockY == Block(<< << <<2, 0>>, <<0, 1>>, <<0, 0>> >>,
                   << <<0, 1>>, <<1, 0>>, <<0, 2>> >> >>, PassedB)
EmptyBlock == Block(<<>>, PassedB)
SmallBlocks == {EmptyBlock, BlockX, BlockY}

\* one gene with one variant type and any tensor of BlockTensors, or two genes with
\* two variant types each and blocks among SmallBlocks
BlockMaps ==
    {[g \in {"g1"} |-> [vt \in {"4D"} |-> Block(t, PassedA)]] : t \in BlockTensors}
    \cup [{"g1", "g2"} -> [{"1D", "4D"} -> SmallBlocks]]

allele_counts_map_of(bm) ==
    [g \in DOMAIN bm |-> [vt \in DOMAIN bm[g] |-> [alleles |-> bm[g][vt].alleles]]]
passed_sites_map_of(bm) ==
    [g \in DOMAIN bm |-> [vt \in DOMAIN bm[g] |-> [sites |-> bm[g][vt].sites]]]

\* parameter values the calls are made with (dyadic, so exact in floating point)
FixationParams ==      \* <<min_freq, min_change>>
    {<<Zero, Half>>, <<Zero, <<3, 4>>>>, <<Half, Half>>}
NewSnpParams ==        \* <<min_freq, max_freq>>
    {<<<<1, 8>>, <<5, 8>>>>, <<<<1, 8>>, <<3, 8>>>>, <<<<1, 8>>, <<1, 8>>>>, <<<<3, 8>>, <<3, 8>>>>}
\* <<allowed_variant_types, allowed_genes>>; the single-gene maps are called
\* with the defaults
AllowedChoices(psm) ==
    IF Cardinality(DOMAIN psm) = 1 THEN {<<{}, {}>>}
    ELSE {<<{}, {}>>, <<{"4D"}, {"g1"}>>, <<{}, {"g2", "g9"}>>}

DefaultVariantTypes == {"1D", "2D", "3D", "4D"}

IZeroMatrix(m) == [j \in DOMAIN m |-> [l \in DOMAIN m[j] |-> 0]]
IMAdd(m, c) == [j \in DOMAIN m |-> [l \in DOMAIN m[j] |-> m[j][l] + c[j][l]]]

\* passed_sites_map.values()[0].values()[0]['sites']: the matrix of some block
FirstSites(psm) ==
    LET g == CHOOSE x \in DOMAIN psm : TRUE
        vt == CHOOSE x \in DOMAIN psm[g] : TRUE
    IN  psm[g][vt].sites

----------------------------------------------------------------------------
(* The accumulating routines *)

Init ==
    /\ pc = "start"
    /\ routine = None
    /\ dtype \in {"int64", "float64"}
    /\ args \in {[allele_counts_map |-> allele_counts_map_of(bm),
                  passed_sites_map |-> passed_sites_map_of(bm)] : bm \in BlockMaps}
    /\ genes_left = {} /\ gene_name = None /\ types_left = {}
    /\ matrix = None /\ avg_pi_matrix = None /\ passed_sites = None
    /\ allele_counts = <<>>
    /\ freqs = <<>>
    /\ divisors = {}
    /\ locals = <<>>
    /\ ret = None

\* if len(allowed_genes)==0: allowed_genes = set(passed_sites_map.keys())
\* allowed_genes = (allowed_genes & total_genes)
restrict_genes(allowed_genes, psm) ==
    (IF allowed_genes = {} THEN DOMAIN psm ELSE allowed_genes) \cap DOMAIN psm

\* if len(allowed_variant_types)==0: allowed_variant_types = set(['1D','2D','3D','4D'])
restrict_variant_types(allowed_variant_types) ==
    IF allowed_variant_types = {} THEN DefaultVariantTypes ELSE allowed_variant_types

CallFixationMatrix ==
    /\ pc = "start"
    /\ \E al \in AllowedChoices(args.passed_sites_map), p \in FixationParams :
        /\ args' = [allele_counts_map |-> args.allele_counts_map,
                    passed_sites_map |-> args.passed_sites_map,
                    allowed_variant_types |-> restrict_variant_types(al[1]),
                    allowed_genes |-> restrict_genes(al[2], args.passed_sites_map),
                    min_freq |-> p[1], min_change |-> p[2]]
        /\ genes_left' = restrict_genes(al[2], args.passed_sites_map)
    /\ routine' = "calculate_fixation_matrix"
    /\ matrix' = zeros_like(FirstSites(args.passed_sites_map))
    /\ passed_sites' = IZeroMatrix(FirstSites(args.passed_sites_map))
    /\ pc' = "loop"
    /\ UNCHANGED <<locals, dtype, gene_name, types_left, avg_pi_matrix, allele_counts, freqs, divisors, ret>>

CallNewSnpMatrix ==
    /\ pc = "start"
    /\ \E al \in AllowedChoices(args.passed_sites_map), p \in NewSnpParams :
        /\ args' = [allele_counts_map |-> args.allele_counts_map,
                    passed_sites_map |-> args.passed_sites_map,
                    allowed_variant_types |-> restrict_variant_types(al[1]),
                    allowed_genes |-> restrict_genes(al[2], args.passed_sites_map),
                    min_freq |-> p[1], max_freq |-> p[2]]
        /\ genes_left' = restrict_genes(al[2], args.passed_sites_map)
    /\ routine' = "calculate_new_snp_matrix"
    /\ matrix' = zeros_like(FirstSites(args.passed_sites_map))
    /\ passed_sites' = IZeroMatrix(FirstSites(args.passed_sites_map))
    /\ pc' = "loop"
    /\ UNCHANGED <<locals, dtype, gene_name, types_left, avg_pi_matrix, allele_counts, freqs, divisors, ret>>

\* every gene of the maps holds variant type '4D'
CallPiMatrix ==
    /\ pc = "start"
    /\ \E al \in AllowedChoices(args.passed_sites_map) :
        \* if allowed_genes == None: allowed_genes = set(passed_sites_map.keys())
        LET genes == IF al[2] = {} THEN DOMAIN args.passed_sites_map ELSE al[2]
        IN  /\ args' = [allele_counts_map |-> args.allele_counts_map,
                        passed_sites_map |-> args.passed_sites_map,
                        variant_type |-> "4D",
                        allowed_variant_types |-> {"4D"},
                        allowed_genes |-> genes]
            /\ genes_left' = genes
    /\ routine' = "calculate_pi_matrix"
    /\ matrix' = zeros_like(FirstSites(args.passed_sites_map))
    /\ avg_pi_matrix' = zeros_like(FirstSites(args.passed_sites_map))
    /\ passed_sites' = IZeroMatrix(FirstSites(args.passed_sites_map))
    /\ pc' = "loop"
    /\ UNCHANGED <<locals, dtype, gene_name, types_left, allele_counts, freqs, divisors, ret>>

\* every gene asked for is a key of the maps and holds variant type '4D'
CallPooledFreqs ==
    /\ pc = "start"
    /\ \E al \in {x \in AllowedChoices(args.passed_sites_map) :
                    x[2] \subseteq DOMAIN args.passed_sites_map} :
        \* if allowed_genes == None: allowed_genes = set(passed_sites_map.keys())
        LET genes == IF al[2] = {} THEN DOMAIN args.passed_sites_map ELSE al[2]
        IN  /\ args' = [allele_counts_map |-> args.allele_counts_map,
                        passed_sites_map |-> args.passed_sites_map,
                        variant_type |-> "4D",
                        allowed_variant_types |-> {"4D"},
                        allowed_genes |-> genes]
            /\ genes_left' = genes
    /\ routine' = "calculate_pooled_freqs"
    /\ matrix' = <<>>
    /\ pc' = "loop"
    /\ UNCHANGED <<locals, dtype, gene_name, types_left, avg_pi_matrix, passed_sites, allele_counts, freqs,
                   divisors, ret>>

\* for gene_name in allowed_genes: (a set: any order)
NextGene ==
    /\ pc = "loop"
    /\ \E g \in genes_left :
        /\ gene_name' = g
        /\ genes_left' = genes_left \ {g}
        /\ types_left' =
             IF routine \in {"calculate_pi_matrix", "calculate_pooled_freqs"}
             THEN (IF g \in DOMAIN args.passed_sites_map THEN {args.variant_type} ELSE {})
             ELSE DOMAIN args.passed_sites_map[g]
    /\ pc' = "gene"
    /\ UNCHANGED <<locals, routine, dtype, args, matrix, avg_pi_matrix, passed_sites,
                   allele_counts, freqs, divisors, ret>>

\* if variant_type not in allowed_variant_types: continue
SkipVariantType ==
    /\ pc = "gene"
    /\ \E vt \in types_left :
        /\ vt \notin args.allowed_variant_types
        /\ types_left' = types_left \ {vt}
    /\ UNCHANGED <<locals, pc, routine, dtype, args, genes_left, gene_name, matrix,
                   avg_pi_matrix, passed_sites, allele_counts, freqs, divisors, ret>>

skip_empty_passed_sites(acc, block_sites, ac) ==
    IF Len(ac) = 0 THEN acc ELSE IMAdd(acc, block_sites)

\* passed_sites += passed_sites_map[gene_name][variant_type]['sites'], which
\* precedes the test len(allele_counts)==0
add_passed_sites(acc, block_sites, ac) == IMAdd(acc, block_sites)

overwrite_contribution(acc, ac, contribution) ==
    IF Len(ac) = 0 THEN acc ELSE contribution

\* statistic += contribution, unless len(allele_counts)==0: continue
add_contribution(acc, ac, contribution) ==
    IF Len(ac) = 0 THEN acc ELSE MAdd(acc, contribution)

VisitFixation ==
    /\ pc = "gene"
    /\ routine = "calculate_fixation_matrix"
    /\ \E vt \in types_left :
        LET ac == args.allele_counts_map[gene_name][vt].alleles
            sites == args.passed_sites_map[gene_name][vt].sites
        IN  /\ vt \in args.allowed_variant_types
            /\ types_left' = types_left \ {vt}
            /\ allele_counts' = ac
            /\ passed_sites' = add_passed_sites(passed_sites, sites, ac)
            /\ matrix' = add_contribution(matrix, ac,
                    fixation_contribution(ac, args.min_freq, args.min_change, dtype))
            /\ freqs' = IF Len(ac) = 0 THEN freqs
                        ELSE alt_freqs(ac, dtype)
    /\ UNCHANGED <<locals, pc, routine, dtype, args, genes_left, gene_name, avg_pi_matrix,
                   divisors, ret>>

VisitNewSnp ==
    /\ pc = "gene"
    /\ routine = "calculate_new_snp_matrix"
    /\ \E vt \in types_left :
        LET ac == args.allele_counts_map[gene_name][vt].alleles
            sites == args.passed_sites_map[gene_name][vt].sites
        IN  /\ vt \in args.allowed_variant_types
            /\ types_left' = types_left \ {vt}
            /\ allele_counts' = ac
            /\ passed_sites' = add_passed_sites(passed_sites, sites, ac)
            /\ matrix' = add_contribution(matrix, ac,
                    new_snp_contribution(ac, args.min_freq, args.max_freq, dtype))
            /\ freqs' = IF Len(ac) = 0 THEN freqs
                        ELSE alt_freqs(ac, dtype)
    /\ UNCHANGED <<locals, pc, routine, dtype, args, genes_left, gene_name, avg_pi_matrix,
                   divisors, ret>>

VisitPi ==
    /\ pc = "gene"
    /\ routine = "calculate_pi_matrix"
    /\ \E vt \in types_left :
        LET ac == args.allele_counts_map[gene_name][vt].alleles
            sites == args.passed_sites_map[gene_name][vt].sites
        IN  /\ types_left' = types_left \ {vt}
            /\ allele_counts' = ac
            /\ passed_sites' = add_passed_sites(passed_sites, sites, ac)
            /\ matrix' = add_contribution(matrix, ac,
                                          gene_pi_matrix(ac, dtype))
            /\ avg_pi_matrix' = add_contribution(avg_pi_matrix, ac,
                                                 gene_avg_pi_matrix(ac, dtype))
            /\ freqs' = IF Len(ac) = 0 THEN freqs
                        ELSE [s \in SitesOf(ac) |->
                                [j \in SamplesOf(ac) |->
                                    pi_freq(ac, s, j, 1, dtype)]]
            /\ divisors' = divisors \cup
                  (IF Len(ac) = 0 THEN {} ELSE pi_divisors(ac))
    /\ UNCHANGED <<locals, pc, routine, dtype, args, genes_left, gene_name, ret>>

\* pooled_freqs.extend(gene_pooled_freqs), unless len(allele_counts)==0: continue
VisitPooledFreqs ==
    /\ pc = "gene"
    /\ routine = "calculate_pooled_freqs"
    /\ \E vt \in types_left :
        LET ac == args.allele_counts_map[gene_name][vt].alleles
        IN  /\ types_left' = types_left \ {vt}
            /\ allele_counts' = ac
            /\ matrix' = IF Len(ac) = 0 THEN matrix
                         ELSE matrix \o gene_pooled_freqs(ac, dtype)
            /\ freqs' = IF Len(ac) = 0 THEN freqs
                        ELSE [s \in SitesOf(ac) |-> [j \in SamplesOf(ac) |->
                                pi_freq(ac, s, j, 1, dtype)]]
            /\ divisors' = divisors \cup
                  (IF Len(ac) = 0 THEN {} ELSE pooled_divisors(ac))
    /\ UNCHANGED <<locals, pc, routine, dtype, args, genes_left, gene_name, avg_pi_matrix,
                   passed_sites, ret>>

\* the inner for-loop is exhausted
EndGene ==
    /\ pc = "gene"
    /\ types_left = {}
    /\ pc' = "loop"
    /\ UNCHANGED <<locals, routine, dtype, args, genes_left, gene_name, types_left, matrix,
                   avg_pi_matrix, passed_sites, allele_counts, freqs, divisors, ret>>

Return ==
    /\ pc = "loop"
    /\ genes_left = {}
    /\ pc' = "done"
    /\ ret' = CASE routine = "calculate_fixation_matrix" ->
                     [fixation_matrix |-> matrix, passed_sites |-> passed_sites]
                [] routine = "calculate_new_snp_matrix" ->
                     [new_snp_matrix |-> matrix, passed_sites |-> passed_sites]
                [] routine = "calculate_pooled_freqs" -> [pooled_freqs |-> matrix]
                [] routine = "calculate_pi_matrix" ->
                     [pi_matrix |-> matrix, avg_pi_matrix |-> avg_pi_matrix,
                      passed_sites |-> passed_sites]
    /\ UNCHANGED <<locals, routine, dtype, args, genes_left, gene_name, types_left, matrix,
                   avg_pi_matrix, passed_sites, allele_counts, freqs, divisors>>

Next ==
    \/ CallFixationMatrix
    \/ CallNewSnpMatrix
    \/ CallPiMatrix
    \/ CallPooledFreqs
    \/ NextGene
    \/ SkipVariantType
    \/ VisitFixation
    \/ VisitNewSnp
    \/ VisitPi
    \/ VisitPooledFreqs
    \/ EndGene
    \/ Return

Spec == Init /\ [][Next]_vars

----------------------------------------------------------------------------
(* Specification of the single-tensor routines *)

InitTensor ==
    /\ pc = "start"
    /\ routine = None
    /\ dtype \in {"int64", "float64"}
    /\ args \in {[allele_counts_matrix |-> t] : t \in Tensors \cup {WorkedExample}}
    /\ genes_left = {} /\ gene_name = None /\ types_left = {}
    /\ matrix = None /\ avg_pi_matrix = None /\ passed_sites = None
    /\ allele_counts = <<>>
    /\ freqs = <<>>
    /\ divisors = {}
    /\ locals = <<>>
    /\ ret = None

CallConsensusGenotypes ==
    /\ pc = "start"
    /\ pc' = "done"
    /\ routine' = "calculate_consensus_genotypes"
    /\ allele_counts' = args.allele_counts_matrix
    /\ freqs' = consensus_freqs(args.allele_counts_matrix)
    /\ ret' = calculate_consensus_genotypes(args.allele_counts_matrix)
    /\ UNCHANGED <<locals, dtype, args, genes_left, gene_name, types_left, matrix,
                   avg_pi_matrix, passed_sites, divisors>>

\* called on the genotypes and the mask calculate_consensus_genotypes returned
CallPcaCoordinates ==
    /\ pc = "done"
    /\ routine = "calculate_consensus_genotypes"
    /\ pc' = "done"
    /\ routine' = "calculate_pca_coordinates"
    /\ args' = [genotype_matrix |-> ret.genotype_matrix,
                passed_sites_matrix |-> ret.passed_sites_matrix,
                n_samples |-> num_samples(args.allele_counts_matrix)]
    /\ divisors' = pca_divisors(ret.genotype_matrix, ret.passed_sites_matrix,
                                num_samples(args.allele_counts_matrix))
    /\ ret' = calculate_pca_coordinates(ret.genotype_matrix, ret.passed_sites_matrix,
                                        num_samples(args.allele_counts_matrix))
    /\ UNCHANGED <<locals, dtype, genes_left, gene_name, types_left, matrix, avg_pi_matrix,
                   passed_sites, allele_counts, freqs>>

NextTensor ==
    \/ CallConsensusGenotypes
    \/ CallPcaCoordinates

SpecTensor == InitTensor /\ [][NextTensor]_vars

----------------------------------------------------------------------------
(* fold_sfs *)

Spectra == UNION {[1..n -> 0..MaxBinCount] : n \in 0..MaxSpectrumLen}

\* the worked example of the documentation
SfsExample == <<5, 2, 1, 0, 3>>

\* fs + fs[::-1]
mirror_sum(fs) == [i \in 1..Len(fs) |-> FromInt(fs[i] + fs[Len(fs) - i + 1])]

\* n = len(fs)+1 ; the slice bound (n-1)/2 of Python 2
folded_length(fs) == ((Len(fs) + 1) - 1) \div 2

\* folded_fs = (fs + fs[::-1])[0:(n-1)/2]
folded_fs(fs) == SubSeq(mirror_sum(fs), 1, folded_length(fs))

\* folded_fs[-1] *= 0.5: the element is read, multiplied by the scalar and
\* assigned back, which casts the product to the dtype of the array (an
\* integer array truncates it)
halve_last(f, dt) ==
    IF Len(f) = 0 THEN [raised |-> "IndexError"]
    ELSE IF dt = "float64"
         THEN [folded_fs |-> [f EXCEPT ![Len(f)] = RMul(Half, @)]]
    ELSE [folded_fs |-> [f EXCEPT ![Len(f)] = FromInt(@[1] \div 2)]]

\* if (n-1) % 2 != 0: folded_fs[-1] *= 0.5
fold_sfs(fs, dt) ==
    IF ((Len(fs) + 1) - 1) % 2 # 0
    THEN halve_last(folded_fs(fs), dt)
    ELSE [folded_fs |-> folded_fs(fs)]

InitSfs ==
    /\ pc = "start"
    /\ routine = None
    /\ dtype \in {"int64", "float64"}
    /\ args \in {[fs |-> f] : f \in Spectra \cup {SfsExample}}
    /\ genes_left = {} /\ gene_name = None /\ types_left = {}
    /\ matrix = None /\ avg_pi_matrix = None /\ passed_sites = None
    /\ allele_counts = <<>>
    /\ freqs = <<>>
    /\ divisors = {}
    /\ locals = <<>>
    /\ ret = None

CallFoldSfs ==
    /\ pc = "start"
    /\ pc' = "done"
    /\ routine' = "fold_sfs"
    /\ ret' = fold_sfs(args.fs, dtype)
    /\ UNCHANGED <<locals, dtype, args, genes_left, gene_name, types_left, matrix, avg_pi_matrix,
                   passed_sites, allele_counts, freqs, divisors>>

NextSfs ==
    \/ CallFoldSfs

SpecSfs == InitSfs /\ [][NextSfs]_vars

----------------------------------------------------------------------------
(* cluster_samples *)

\* indices of the samples of a distance matrix: xrange(0, distance_matrix.shape[0])
SampleIdxs == 0..4

\* the distance matrices handed in: distances of samples placed on a line
distance_matrix_of(x) == [i \in SampleIdxs |-> [j \in SampleIdxs |-> Abs(x[i] - x[j])]]

DistanceMatrices == {distance_matrix_of(x) : x \in [SampleIdxs -> 0..MaxPosition]}

\* (min_d, max_d); the defaults are min_d=0 and a max_d beyond every distance
ClusterParams ==
    {<<Zero, FromInt(1000)>>, <<Zero, FromInt(2)>>, <<Zero, Half>>, <<One, Rat(3, 2)>>}

\* average distance of two groups of samples (method='average')
average_distance(D, A, B) ==
    Rat(ISum([p \in A \X B |-> D[p[1]][p[2]]], A \X B), Cardinality(A) * Cardinality(B))

\* the pairs of groups at the least average distance
closest_pairs(D, P) ==
    {pr \in {{A, B} : A, B \in P} :
        /\ Cardinality(pr) = 2
        /\ \A A, B \in pr : \A C, E \in P :
               (A # B /\ C # E) => RLe(average_distance(D, A, B), average_distance(D, C, E))}

pair_distance(D, pr) ==
    LET A == CHOOSE A \in pr : TRUE
        B == CHOOSE B \in pr : B # A
    IN  average_distance(D, A, B)

RECURSIVE linkages(_, _)
\* Z = linkage(Y, method='average'): the merges, in order, of agglomerative
\* clustering started from the groups P; equally close pairs are merged in any order
linkages(D, P) ==
    IF Cardinality(P) <= 1 THEN {<<>>}
    ELSE UNION {
           {<<[members |-> UNION pr, height |-> pair_distance(D, pr)]>> \o Z :
               Z \in linkages(D, (P \ pr) \cup {UNION pr})} :
           pr \in closest_pairs(D, P)}

\* the flat clusters of fcluster(Z, t, criterion='distance'): the groups merged
\* at a height of at most t
flat_clusters(Z, t) ==
    LET merged == {Z[k].members : k \in {k \in DOMAIN Z : RLe(Z[k].height, t)}}
        top == {A \in merged : \A B \in merged : ~(A \subseteq B /\ A # B)}
    IN  top \cup {{i} : i \in SampleIdxs \ UNION top}

\* the flat clusters numbered 1..k in the order of their lowest samples
numbered_by_lowest_sample(Z, t) ==
    LET P == flat_clusters(Z, t)
        low(A) == CHOOSE i \in A : \A h \in A : i <= h
    IN  [i \in SampleIdxs |->
            Cardinality({B \in P : low(B) <= low(CHOOSE A \in P : i \in A)})]

\* fcluster numbers the flat clusters 1..k, in an order of its own
fcluster(Z, t) ==
    LET P == flat_clusters(Z, t)
        k == Cardinality(P)
    IN  {[i \in SampleIdxs |-> b[CHOOSE A \in P : i \in A]] :
            b \in {b \in [P -> 1..k] : \A A, B \in P : b[A] = b[B] => A = B}}

\* cluster_labels = list(set(cluster_assignments)): small integers, which a set
\* of CPython yields in ascending order
cluster_labels(ca) ==
    LET S == {ca[i] : i \in SampleIdxs}
    IN  [r \in 1..Cardinality(S) |-> CHOOSE v \in S : Cardinality({w \in S : w < v}) = r - 1]

cluster_idx_map_without_dedup(ca, sa) ==
    [label \in {ca[i] : i \in SampleIdxs} |-> {i \in SampleIdxs : ca[i] = label}]

\* the loop of lines 692-695: sample i is appended to its cluster unless an
\* earlier sample of that cluster carries the same subcluster label
cluster_idx_map(ca, sa) ==
    [label \in {ca[i] : i \in SampleIdxs} |->
        {i \in SampleIdxs :
            /\ ca[i] = label
            /\ ~\E h \in SampleIdxs : h < i /\ ca[h] = label /\ sa[h] = sa[i]}]

\* cluster_idxss = [set(cluster_idx_map[cluster_label]) for cluster_label in cluster_labels]
cluster_idxss(ca, sa) ==
    [r \in DOMAIN cluster_labels(ca) |-> cluster_idx_map(ca, sa)[cluster_labels(ca)[r]]]

\* all_unique_idxs: the union of every entry of cluster_idxss
all_unique_idxs(ca, sa) == UNION {cluster_idxss(ca, sa)[r] : r \in DOMAIN cluster_idxss(ca, sa)}

\* cluster_idxs = numpy.array([(i in cluster_idx_set) for i in xrange(...)])
cluster_idxs(cluster_idx_set) == [i \in SampleIdxs |-> i \in cluster_idx_set]

\* anticluster_idxs = numpy.array([((i not in cluster_idx_set) and (i in all_unique_idxs)) ...])
anticluster_idxs(cluster_idx_set, unique_idxs) ==
    [i \in SampleIdxs |-> i \notin cluster_idx_set /\ i \in unique_idxs]

larger_than_one(cluster_idx_set) == Cardinality(cluster_idx_set) > 1

\* final_clusters: the (cluster_idxs, anticluster_idxs) of every entry of
\* cluster_idxss with more than one member
final_clusters(ca, sa) ==
    LET kept == SelectSeq(cluster_idxss(ca, sa), larger_than_one)
    IN  [k \in DOMAIN kept |->
            [cluster_idxs |-> cluster_idxs(kept[k]),
             anticluster_idxs |-> anticluster_idxs(kept[k], all_unique_idxs(ca, sa))]]

\* final_cluster_sizes.append((cluster_idxs*1.0).sum())
final_cluster_size(c) == Cardinality({i \in SampleIdxs : c.cluster_idxs[i]})

unsorted_final_cluster_idxs(fc) == [r \in DOMAIN fc |-> r]

\* sorted(zip(final_cluster_sizes, final_cluster_idxs), reverse=True): by
\* descending size, and among equal sizes by descending index
final_cluster_idxs(fc) ==
    [r \in DOMAIN fc |->
        CHOOSE k \in DOMAIN fc :
            Cardinality({h \in DOMAIN fc :
                \/ final_cluster_size(fc[h]) > final_cluster_size(fc[k])
                \/ final_cluster_size(fc[h]) = final_cluster_size(fc[k]) /\ h > k}) = r - 1]

\* sorted_final_clusters = [final_clusters[idx] for idx in final_cluster_idxs]
sorted_final_clusters(fc) == [r \in DOMAIN fc |-> fc[final_cluster_idxs(fc)[r]]]

\* lines 688-725; unpacking the two names of line 721 from zip(*[]) == []
\* raises ValueError when final_clusters is empty
cluster_samples(ca, sa) ==
    IF Len(final_clusters(ca, sa)) = 0
    THEN [raised |-> "ValueError"]
    ELSE [clusters |-> sorted_final_clusters(final_clusters(ca, sa))]

InitCluster ==
    /\ pc = "start"
    /\ routine = None
    /\ dtype = "float64"
    /\ args \in {[distance_matrix |-> D, min_d |-> p[1], max_d |-> p[2]] :
                    D \in DistanceMatrices, p \in ClusterParams}
    /\ genes_left = {} /\ gene_name = None /\ types_left = {}
    /\ matrix = None /\ avg_pi_matrix = None /\ passed_sites = None
    /\ allele_counts = <<>>
    /\ freqs = <<>>
    /\ divisors = {}
    /\ locals = <<>>
    /\ ret = None

\* the routine reads the subcluster numbers only to tell subclusters apart,
\* so one numbering of them stands for all
CallClusterSamples ==
    /\ pc = "start"
    /\ pc' = "done"
    /\ routine' = "cluster_samples"
    /\ \E Z \in linkages(args.distance_matrix, {{i} : i \in SampleIdxs}) :
       \E ca \in fcluster(Z, args.max_d) :
       \E sa \in {numbered_by_lowest_sample(Z, args.min_d)} :
          /\ locals' = [cluster_assignments |-> ca, subcluster_assignments |-> sa]
          /\ ret' = cluster_samples(ca, sa)
    /\ UNCHANGED <<dtype, args, genes_left, gene_name, types_left, matrix, avg_pi_matrix,
                   passed_sites, allele_counts, freqs, divisors>>

NextCluster ==
    \/ CallClusterSamples

SpecCluster == InitCluster /\ [][NextCluster]_vars

----------------------------------------------------------------------------
(* calculate_consensus_genotypes called on its own output *)

\* the allele counts of a called output: alt = genotype*passed,
\* ref = (1-genotype)*passed, so that the depth is the passed indicator
called_allele_counts(G, P) ==
    [s \in DOMAIN G |->
        [j \in DOMAIN G[s] |-> <<G[s][j] * Bool(P[s][j]), (1 - G[s][j]) * Bool(P[s][j])>>]]

CallConsensusGenotypesOnOutput ==
    /\ pc = "done"
    /\ routine = "calculate_consensus_genotypes"
    /\ locals = <<>>
    /\ locals' = [called |-> ret]
    /\ args' = [allele_counts_matrix |->
                   called_allele_counts(ret.genotype_matrix, ret.passed_sites_matrix)]
    /\ allele_counts' = args'.allele_counts_matrix
    /\ freqs' = consensus_freqs(args'.allele_counts_matrix)
    /\ ret' = calculate_consensus_genotypes(args'.allele_counts_matrix)
    /\ UNCHANGED <<pc, routine, dtype, genes_left, gene_name, types_left, matrix,
                   avg_pi_matrix, passed_sites, divisors>>

NextTensorAgain ==
    \/ CallConsensusGenotypes
    \/ CallPcaCoordinates
    \/ CallConsensusGenotypesOnOutput

SpecTensorAgain == InitTensor /\ [][NextTensorAgain]_vars

----------------------------------------------------------------------------
(* Arrays in memory: which statements allocate, which alias, which write *)

(* A memory is a record [env, heap]: env binds a Python name to a reference  *)
(* [buffer, stop], heap gives every buffer its content.  A reference with    *)
(* stop = -1 shows the whole buffer, one with stop = k the buffer's first k  *)
(* entries (a basic slice [0:k], which numpy returns as a view).  Buffers    *)
(* are named after the source line that allocates them.                      *)

\* the content a name shows
read(m, name) ==
    LET r == m.env[name]
    IN  IF r.stop < 0 THEN m.heap[r.buffer] ELSE SubSeq(m.heap[r.buffer], 1, r.stop)

\* name = <expression that allocates a new array>
bind_new(m, name, buffer, value) ==
    [env |-> (name :> [buffer |-> buffer, stop |-> -1]) @@ m.env,
     heap |-> (buffer :> value) @@ m.heap]

\* name = other (another name of the same object), name = other[0:stop] (a view)
bind_view(m, name, other, stop) ==
    [m EXCEPT !.env = (name :> [buffer |-> m.env[other].buffer, stop |-> stop]) @@ m.env]

\* an in-place statement (name[mask] = v, name += v, name *= v): the buffer
\* behind name changes for every name that shares it
write(m, name, value) ==
    LET r == m.env[name]
        old == m.heap[r.buffer]
    IN  [m EXCEPT !.heap =
            (r.buffer :> (IF r.stop < 0 THEN value
                          ELSE value \o SubSeq(old, r.stop + 1, Len(old)))) @@ m.heap]

\* the statements of a routine run one after another: F is applied to the
\* memory the statements before it have left
after(m, F(_)) == CHOOSE r \in {F(mem) : mem \in {m}} : TRUE

\* name = <an expression over the arrays in memory that allocates its result>
assign(m, name, buffer, F(_)) == after(m, LAMBDA mem : bind_new(mem, name, buffer, F(mem)))

\* an in-place statement whose right-hand side reads the arrays in memory
update(m, name, F(_)) == after(m, LAMBDA mem : write(mem, name, F(mem)))

\* name = other, name = other[0:stop]
alias(m, name, other, stop) == after(m, LAMBDA mem : bind_view(mem, name, other, stop))

\* the caller's arrays: one buffer per array handed in, named as the argument
caller_memory(arrays) ==
    [env |-> [a \in DOMAIN arrays |-> [buffer |-> a, stop |-> -1]],
     heap |-> arrays]

\* fs += fs[::-1] would add into the caller's array
add_reversed_in_place(m, name, buffer, fs) ==
    LET v == read(m, fs)
    IN  bind_new(write(m, fs, [i \in DOMAIN v |-> v[i] + v[Len(v) - i + 1]]),
                 name, buffer, mirror_sum(v))

\* fs + fs[::-1]: fs[::-1] is a view that is only read, the sum a new array
add_reversed(m, name, buffer, fs) == bind_new(m, name, buffer, mirror_sum(read(m, fs)))

\* fold_sfs, statement by statement
fold_sfs_in_memory(m, dt) ==
    LET m1 == add_reversed(m, "fs + fs[::-1]", "line 571", "fs")
        m2 == bind_view(m1, "folded_fs", "fs + fs[::-1]", folded_length(read(m, "fs")))
        halved == halve_last(read(m2, "folded_fs"), dt)
    IN  IF ((Len(read(m, "fs")) + 1) - 1) % 2 # 0
        THEN IF "raised" \in DOMAIN halved
             THEN [memory |-> m2, raised |-> halved.raised]
             ELSE [memory |-> write(m2, "folded_fs", halved.folded_fs),
                   returned |-> <<"folded_fs">>]
        ELSE [memory |-> m2, returned |-> <<"folded_fs">>]

\* (depths>0)[:,:,None]*(depths>0)[:,None,:] of an array of depths
passed_depths_of(d) ==
    [s \in DOMAIN d |-> [j \in DOMAIN d[s] |-> [l \in DOMAIN d[s] |-> d[s][j] > 0 /\ d[s][l] > 0]]]

\* array.sum(axis=0) of a sites x samples x samples array, for Samples
sum_over_sites(a) ==
    [j \in Samples |-> [l \in Samples |-> RSum([s \in DOMAIN a |-> a[s][j][l]], DOMAIN a)]]

(* calculate_fixation_matrix on the maps of one gene with one variant type, *)
(* whose arrays the caller holds as "alleles" and "sites"                   *)
fixation_matrix_in_memory(m, min_freq, min_change, dt) ==
    LET \* lines 418-419: numpy.zeros_like(...)*1.0
        m1 == assign(m, "fixation_matrix", "line 418", LAMBDA mem : zeros_like(read(mem, "sites")))
        m2 == assign(m1, "passed_sites", "line 419", LAMBDA mem : IZeroMatrix(read(mem, "fixation_matrix")))
        \* line 428: passed_sites += passed_sites_map[gene_name][variant_type]['sites']
        m3 == update(m2, "passed_sites", LAMBDA mem : IMAdd(read(mem, "passed_sites"), read(mem, "sites")))
        \* line 430: allele_counts = allele_counts_map[gene_name][variant_type]['alleles']
        m4 == alias(m3, "allele_counts", "alleles", -1)
        t == read(m4, "allele_counts")
        \* lines 435-436
        m5 == assign(m4, "depths", "line 435", LAMBDA mem : depths(read(mem, "allele_counts")))
        m6 == assign(m5, "alt_freqs", "line 436", LAMBDA mem : alt_freqs(read(mem, "allele_counts"), dt))
        \* lines 437-438: alt_freqs[...] = 0.0 ; alt_freqs[...] = 1.0
        m7 == update(m6, "alt_freqs", LAMBDA mem :
                    [s \in SitesOf(read(mem, "allele_counts")) |-> [j \in SamplesOf(read(mem, "allele_counts")) |->
                        clamp(read(mem, "alt_freqs")[s][j], min_freq)]])
        \* line 439
        m8 == assign(m7, "passed_depths", "line 439", LAMBDA mem : passed_depths_of(read(mem, "depths")))
        \* line 441
        m9 == assign(m8, "delta_freq", "line 441", LAMBDA mem :
                    [s \in SitesOf(read(mem, "allele_counts")) |-> [j \in SamplesOf(read(mem, "allele_counts")) |-> [l \in SamplesOf(read(mem, "allele_counts")) |->
                        RAbs(RSub(read(mem, "alt_freqs")[s][j], read(mem, "alt_freqs")[s][l]))]]])
        \* lines 442-443: delta_freq[passed_depths==0] = 0 ; delta_freq[delta_freq<min_change] = 0
        m10 == update(m9, "delta_freq", LAMBDA mem :
                    [s \in SitesOf(read(mem, "allele_counts")) |-> [j \in SamplesOf(read(mem, "allele_counts")) |-> [l \in SamplesOf(read(mem, "allele_counts")) |->
                        IF ~read(mem, "passed_depths")[s][j][l] THEN Zero
                        ELSE IF RLt(read(mem, "delta_freq")[s][j][l], min_change) THEN Zero
                        ELSE read(mem, "delta_freq")[s][j][l]]]])
        \* line 445: fixation_matrix += delta_freq.sum(axis=0)
        m11 == update(m10, "fixation_matrix", LAMBDA mem :
                    MAdd(read(mem, "fixation_matrix"), sum_over_sites(read(mem, "delta_freq"))))
    IN  \* line 431: if len(allele_counts)==0: continue
        [memory |-> IF Len(t) = 0 THEN m4 ELSE m11,
         returned |-> <<"fixation_matrix", "passed_sites">>]

(* calculate_new_snp_matrix on the maps of one gene with one variant type *)
new_snp_matrix_in_memory(m, min_freq, max_freq, dt) ==
    LET \* lines 468-469
        m1 == assign(m, "new_snp_matrix", "line 468", LAMBDA mem : zeros_like(read(mem, "sites")))
        m2 == assign(m1, "passed_sites", "line 469", LAMBDA mem : IZeroMatrix(read(mem, "new_snp_matrix")))
        \* line 478: passed_sites += ...['sites']
        m3 == update(m2, "passed_sites", LAMBDA mem : IMAdd(read(mem, "passed_sites"), read(mem, "sites")))
        \* line 480
        m4 == alias(m3, "allele_counts", "alleles", -1)
        t == read(m4, "allele_counts")
        \* lines 485-488
        m5 == assign(m4, "depths", "line 485", LAMBDA mem : depths(read(mem, "allele_counts")))
        m6 == assign(m5, "freqs", "line 486", LAMBDA mem : alt_freqs(read(mem, "allele_counts"), dt))
        m7 == assign(m6, "mafs", "line 488", LAMBDA mem :
                    [s \in SitesOf(read(mem, "allele_counts")) |-> [j \in SamplesOf(read(mem, "allele_counts")) |->
                        RMin(read(mem, "freqs")[s][j], RSub(One, read(mem, "freqs")[s][j]))]])
        \* lines 492-494
        m8 == assign(m7, "total_new_snps", "line 494", LAMBDA mem :
                    [s \in SitesOf(read(mem, "allele_counts")) |-> [j \in SamplesOf(read(mem, "allele_counts")) |-> [l \in SamplesOf(read(mem, "allele_counts")) |->
                        \/ /\ RLt(read(mem, "mafs")[s][j], min_freq)
                           /\ RLt(max_freq, read(mem, "mafs")[s][l])
                        \/ /\ RLt(max_freq, read(mem, "mafs")[s][j])
                           /\ RLt(read(mem, "mafs")[s][l], min_freq)]]])
        \* line 496
        m9 == assign(m8, "passed_depths", "line 496", LAMBDA mem : passed_depths_of(read(mem, "depths")))
        \* line 498: total_new_snps[passed_depths==0] = 0
        m10 == update(m9, "total_new_snps", LAMBDA mem :
                    [s \in SitesOf(read(mem, "allele_counts")) |-> [j \in SamplesOf(read(mem, "allele_counts")) |-> [l \in SamplesOf(read(mem, "allele_counts")) |->
                        read(mem, "passed_depths")[s][j][l] /\ read(mem, "total_new_snps")[s][j][l]]]])
        \* line 500: new_snp_matrix += total_new_snps.sum(axis=0)
        m11 == update(m10, "new_snp_matrix", LAMBDA mem :
                    MAdd(read(mem, "new_snp_matrix"),
                         sum_over_sites([s \in SitesOf(read(mem, "allele_counts")) |-> [j \in SamplesOf(read(mem, "allele_counts")) |->
                             [l \in SamplesOf(read(mem, "allele_counts")) |->
                                 FromInt(Bool(read(mem, "total_new_snps")[s][j][l]))]]])))
    IN  \* line 481: if len(allele_counts)==0: continue
        [memory |-> IF Len(t) = 0 THEN m4 ELSE m11,
         returned |-> <<"new_snp_matrix", "passed_sites">>]

(* calculate_pi_matrix on the maps of one gene *)
pi_matrix_in_memory(m, dt) ==
    LET \* lines 511-513
        m1 == assign(m, "pi_matrix", "line 511", LAMBDA mem : zeros_like(read(mem, "sites")))
        m2 == assign(m1, "avg_pi_matrix", "line 512", LAMBDA mem : zeros_like(read(mem, "pi_matrix")))
        m3 == assign(m2, "passed_sites", "line 513", LAMBDA mem : IZeroMatrix(read(mem, "pi_matrix")))
        \* line 521: passed_sites += ...['sites']
        m4 == update(m3, "passed_sites", LAMBDA mem : IMAdd(read(mem, "passed_sites"), read(mem, "sites")))
        \* line 523
        m5 == alias(m4, "allele_counts", "alleles", -1)
        t == read(m5, "allele_counts")
        \* lines 529-532
        m6 == assign(m5, "depths", "line 529", LAMBDA mem : depths(read(mem, "allele_counts")))
        m7 == assign(m6, "freqs", "line 530", LAMBDA mem :
                    [s \in SitesOf(read(mem, "allele_counts")) |-> [j \in SamplesOf(read(mem, "allele_counts")) |-> [k \in Alleles |->
                        pi_freq(read(mem, "allele_counts"), s, j, k, dt)]]])
        m8 == assign(m7, "self_freqs", "line 531", LAMBDA mem :
                    [s \in SitesOf(read(mem, "allele_counts")) |-> [j \in SamplesOf(read(mem, "allele_counts")) |-> [k \in Alleles |->
                        self_freq(read(mem, "allele_counts"), s, j, k, dt)]]])
        m9 == assign(m8, "self_pis", "line 532", LAMBDA mem :
                    [s \in SitesOf(read(mem, "allele_counts")) |-> [j \in SamplesOf(read(mem, "allele_counts")) |-> self_pis(read(mem, "allele_counts"), s, j, dt)]])
        \* lines 537-540
        m10 == assign(m9, "gene_pi_matrix", "line 537", LAMBDA mem :
                    [j \in SamplesOf(read(mem, "allele_counts")) |-> [l \in SamplesOf(read(mem, "allele_counts")) |-> between_pi(read(mem, "allele_counts"), j, l, dt)]])
        m11 == assign(m10, "gene_avg_pi_matrix", "line 540", LAMBDA mem : gene_avg_pi_matrix(read(mem, "allele_counts"), dt))
        \* line 543: gene_pi_matrix[diagonal_idxs] = gene_avg_pi_matrix[diagonal_idxs]
        m12 == update(m11, "gene_pi_matrix", LAMBDA mem :
                    [j \in SamplesOf(read(mem, "allele_counts")) |-> [l \in SamplesOf(read(mem, "allele_counts")) |->
                        IF j = l THEN read(mem, "gene_avg_pi_matrix")[j][l]
                        ELSE read(mem, "gene_pi_matrix")[j][l]]])
        \* lines 545-546
        m13 == update(m12, "pi_matrix", LAMBDA mem : MAdd(read(mem, "pi_matrix"), read(mem, "gene_pi_matrix")))
        m14 == update(m13, "avg_pi_matrix", LAMBDA mem :
                    MAdd(read(mem, "avg_pi_matrix"), read(mem, "gene_avg_pi_matrix")))
    IN  \* line 525: if len(allele_counts)==0: continue
        [memory |-> IF Len(t) = 0 THEN m5 ELSE m14,
         returned |-> <<"pi_matrix", "avg_pi_matrix", "passed_sites">>]

(* calculate_snp_differences_between(i, j, ...) on the maps of one gene "g1" *)
(* with one variant type                                                    *)
snp_differences_between_in_memory(m, i, j, min_freq, min_change, dt) ==
    LET \* line 629
        m1 == assign(m, "snp_changes", "line 629", LAMBDA mem : <<>>)
        \* line 641
        m2 == alias(m1, "allele_counts", "alleles", -1)
        t == read(m2, "allele_counts")
        \* line 646: allele_counts = allele_counts[:,[i,j],:], an index list copies
        m3 == assign(m2, "allele_counts", "line 646", LAMBDA mem : [s \in SitesOf(read(mem, "allele_counts")) |-> <<read(mem, "allele_counts")[s][i], read(mem, "allele_counts")[s][j]>>])
        t2 == read(m3, "allele_counts")
        \* lines 647-648
        m4 == assign(m3, "depths", "line 647", LAMBDA mem : depths(read(mem, "allele_counts")))
        m5 == assign(m4, "alt_freqs", "line 648", LAMBDA mem : alt_freqs(read(mem, "allele_counts"), dt))
        \* lines 649-650
        m6 == update(m5, "alt_freqs", LAMBDA mem :
                    [s \in SitesOf(read(mem, "allele_counts")) |-> [c \in SamplesOf(read(mem, "allele_counts")) |->
                        clamp(read(mem, "alt_freqs")[s][c], min_freq)]])
        \* lines 652, 654: passed_depths is bound twice
        m7 == assign(m6, "passed_depths", "line 652", LAMBDA mem : passed_depths_of(read(mem, "depths")))
        m8 == assign(m7, "passed_depths", "line 654", LAMBDA mem :
                    [s \in SitesOf(read(mem, "allele_counts")) |-> read(mem, "depths")[s][1] > 0 /\ read(mem, "depths")[s][2] > 0])
        \* line 656
        m9 == assign(m8, "delta_freqs", "line 656", LAMBDA mem :
                    [s \in SitesOf(read(mem, "allele_counts")) |->
                        RAbs(RSub(read(mem, "alt_freqs")[s][2], read(mem, "alt_freqs")[s][1]))])
        \* lines 657-658
        m10 == update(m9, "delta_freqs", LAMBDA mem :
                    [s \in SitesOf(read(mem, "allele_counts")) |->
                        IF ~read(mem, "passed_depths")[s] THEN Zero
                        ELSE IF RLt(read(mem, "delta_freqs")[s], min_change) THEN Zero
                        ELSE read(mem, "delta_freqs")[s]])
        \* line 660: changed_sites = numpy.nonzero(delta_freqs)[0]
        m11 == assign(m10, "changed_sites", "line 660", LAMBDA mem :
                    SelectSeq([s \in SitesOf(read(mem, "allele_counts")) |-> s],
                              LAMBDA s : read(mem, "delta_freqs")[s] # Zero))
        \* lines 665-666: snp_changes.append((gene_name, location,
        \* (allele_counts[idx,0], depths[idx,0]), (allele_counts[idx,1], depths[idx,1]))),
        \* where allele_counts[idx,0] is the (alt, ref) pair of sample i
        m12 == update(m11, "snp_changes", LAMBDA mem :
                    read(mem, "snp_changes") \o
                    [k \in DOMAIN read(mem, "changed_sites") |->
                        LET idx == read(mem, "changed_sites")[k]
                        IN  <<"g1", read(mem, "locations")[idx],
                              <<read(mem, "allele_counts")[idx][1], read(mem, "depths")[idx][1]>>,
                              <<read(mem, "allele_counts")[idx][2], read(mem, "depths")[idx][2]>> >>])
    IN  \* line 643: if len(allele_counts)==0: continue
        [memory |-> IF Len(t) = 0 THEN m2 ELSE m12, returned |-> <<"snp_changes">>]

\* numpy.histogram(values, bins): bin k holds the values in [bins[k], bins[k+1]),
\* the last bin those in [bins[k], bins[k+1]]
histogram(values, bins) ==
    [k \in 1..(Len(bins) - 1) |->
        Cardinality({s \in DOMAIN values :
            /\ RLe(bins[k], values[s])
            /\ \/ RLt(values[s], bins[k + 1])
               \/ k = Len(bins) - 1 /\ values[s] = bins[k + 1]})]

(* estimate_sfs_naive_binning(allele_counts, target_depth): allele_counts is *)
(* a sites x alleles array                                                  *)
sfs_naive_binning_in_memory(m, target_depth, dt) ==
    LET a == read(m, "allele_counts")
        \* line 579
        m1 == assign(m, "depths", "line 579", LAMBDA mem : [s \in DOMAIN a |-> a[s][1] + a[s][2]])
        \* lines 581-582: a boolean mask copies
        m2 == assign(m1, "allele_counts", "line 581", LAMBDA mem :
                    SelectSeq(a, LAMBDA c : c[1] + c[2] > 0))
        m3 == assign(m2, "depths", "line 582", LAMBDA mem : SelectSeq(read(mem, "depths"), LAMBDA d : d > 0))
        \* line 584: freqs = allele_counts[:,0]/depths
        m4 == assign(m3, "freqs", "line 584", LAMBDA mem :
                    [s \in DOMAIN read(mem, "depths") |->
                        divide(read(mem, "allele_counts")[s][1], read(mem, "depths")[s], dt)])
        \* line 586: bins = (numpy.arange(0,target_depth+2)-0.5)/target_depth
        m5 == assign(m4, "bins", "line 586", LAMBDA mem :
                    [k \in 1..(target_depth + 2) |-> Rat(2 * (k - 1) - 1, 2 * target_depth)])
        \* line 588
        m6 == assign(m5, "counts", "line 588", LAMBDA mem : histogram(read(mem, "freqs"), read(mem, "bins")))
    IN  [memory |-> m6, returned |-> <<"counts">>]

RECURSIVE factorial(_)
factorial(n) == IF n <= 0 THEN 1 ELSE n * factorial(n - 1)

\* depths.min()
array_min(d) == CHOOSE x \in {d[s] : s \in DOMAIN d} : \A s \in DOMAIN d : x <= d[s]

(* numpy.exp(loggamma(A+1)-loggamma(A-ks+1)-loggamma(ks+1) + loggamma(D-A+1)    *)
(* -loggamma(D-A-(Dmin-ks)+1)-loggamma(Dmin-ks+1) + loggamma(D-Dmin+1)          *)
(* + loggamma(Dmin+1) - loggamma(D+1)) for one site and one k: loggamma(n+1)   *)
(* is log n! for an integer n >= 0 and infinite for n < 0; the infinite terms  *)
(* are the subtracted ones, and the exponential of minus infinity is 0.        *)
downsampled_density(A, D, Dmin, k) ==
    IF A - k < 0 \/ D - A - (Dmin - k) < 0 THEN Zero
    ELSE Rat(factorial(A) * factorial(D - A) * factorial(D - Dmin) * factorial(Dmin),
             factorial(A - k) * factorial(k) * factorial(D - A - (Dmin - k))
                 * factorial(Dmin - k) * factorial(D))

(* estimate_sfs_downsampling(allele_counts, target_depth): allele_counts is *)
(* a sites x alleles array                                                 *)
sfs_downsampling_in_memory(m, target_depth) ==
    LET \* line 599: Dmin = min([depths.min(),target_depth])
        Dmin(mem) == IF array_min(read(mem, "depths")) < target_depth
                     THEN array_min(read(mem, "depths")) ELSE target_depth
        ks_of(mem) == 1..(Dmin(mem) + 1)
        \* line 594
        m1 == assign(m, "depths", "line 594", LAMBDA mem :
                    [s \in DOMAIN read(mem, "allele_counts") |->
                        read(mem, "allele_counts")[s][1] + read(mem, "allele_counts")[s][2]])
        \* lines 596-597: a boolean mask copies
        m2 == assign(m1, "allele_counts", "line 596", LAMBDA mem :
                    SelectSeq(read(mem, "allele_counts"), LAMBDA c : c[1] + c[2] > 0))
        m3 == assign(m2, "depths", "line 597", LAMBDA mem :
                    SelectSeq(read(mem, "depths"), LAMBDA d : d > 0))
        \* line 603: count_density = numpy.zeros(Dmin+1)*1.0
        m4 == assign(m3, "count_density", "line 603", LAMBDA mem : [k \in ks_of(mem) |-> Zero])
        \* lines 606-608: numpy.outer allocates; allele_counts[:,0] is a view that is only read
        m5 == assign(m4, "A", "line 606", LAMBDA mem :
                    [s \in DOMAIN read(mem, "depths") |-> [k \in ks_of(mem) |->
                        read(mem, "allele_counts")[s][1]]])
        m6 == assign(m5, "D", "line 607", LAMBDA mem :
                    [s \in DOMAIN read(mem, "depths") |-> [k \in ks_of(mem) |->
                        read(mem, "depths")[s]]])
        m7 == assign(m6, "ks", "line 608", LAMBDA mem :
                    [s \in DOMAIN read(mem, "depths") |-> [k \in ks_of(mem) |-> k - 1]])
        \* line 610: count_density is bound to the new array of the sums over sites
        m8 == assign(m7, "count_density", "line 610", LAMBDA mem :
                    [k \in ks_of(mem) |->
                        RSum([s \in DOMAIN read(mem, "depths") |->
                                 downsampled_density(read(mem, "A")[s][k], read(mem, "D")[s][k],
                                                     Dmin(mem), read(mem, "ks")[s][k])],
                             DOMAIN read(mem, "depths"))])
    IN  \* depths.min() of an array without entries raises
        IF Len(read(m3, "depths")) = 0 THEN [memory |-> m3, raised |-> "ValueError"]
        ELSE [memory |-> m8, returned |-> <<"count_density">>]

----------------------------------------------------------------------------
(* Specification of the calls as sequences of statements on arrays in memory *)

BlockArrays == {[alleles |-> t, sites |-> PassedA] : t \in BlockTensors}

FoldSfsCalls == {[arrays |-> [fs |-> f]] : f \in Spectra \cup {SfsExample}}

FixationMatrixCalls ==
    {[arrays |-> a, min_freq |-> p[1], min_change |-> p[2]] : a \in BlockArrays, p \in FixationParams}

NewSnpMatrixCalls ==
    {[arrays |-> a, min_freq |-> p[1], max_freq |-> p[2]] : a \in BlockArrays, p \in NewSnpParams}

PiMatrixCalls == {[arrays |-> a, variant_type |-> "4D"] : a \in BlockArrays}

\* the pairs (i, j) of samples compared, and the 'locations' of the sites
SnpDifferencesCalls ==
    {[arrays |-> [alleles |-> t, locations |-> [s \in SitesOf(t) |-> <<"contig", s>>]],
      i |-> ij[1], j |-> ij[2], min_freq |-> p[1], min_change |-> p[2]] :
        t \in BlockTensors, ij \in {<<1, 2>>, <<3, 1>>}, p \in FixationParams}

\* the counts of one sample, and target_depth (10 by default)
SfsBinningCalls ==
    {[arrays |-> [allele_counts |-> [s \in SitesOf(t) |-> t[s][1]]], target_depth |-> d] :
        t \in BlockTensors, d \in {2, 10}}

\* the counts of one sample, and target_depth (10 by default)
SfsDownsamplingCalls ==
    {[arrays |-> [allele_counts |-> [s \in SitesOf(t) |-> t[s][1]]], target_depth |-> d] :
        t \in BlockTensors, d \in {1, 10}}

InitMemory ==
    /\ pc = "start"
    /\ routine = None
    /\ dtype \in {"int64", "float64"}
    /\ args \in FoldSfsCalls \cup FixationMatrixCalls \cup NewSnpMatrixCalls \cup PiMatrixCalls
                 \cup SnpDifferencesCalls \cup SfsBinningCalls \cup SfsDownsamplingCalls
    /\ genes_left = {} /\ gene_name = None /\ types_left = {}
    /\ matrix = None /\ avg_pi_matrix = None /\ passed_sites = None
    /\ allele_counts = <<>>
    /\ freqs = <<>>
    /\ divisors = {}
    /\ locals = <<>>
    /\ ret = None

\* what the call hands back: the arrays behind the returned names, or the error
returned_from(out) ==
    IF "raised" \in DOMAIN out THEN [raised |-> out.raised]
    ELSE [name \in {out.returned[k] : k \in DOMAIN out.returned} |-> read(out.memory, name)]

\* a call of routine r ran to its end and left memory out.memory
Ran(r, out) ==
    /\ pc = "start"
    /\ pc' = "done"
    /\ routine' = r
    /\ locals' = out.memory
    /\ ret' = returned_from(out)
    /\ UNCHANGED <<dtype, args, genes_left, gene_name, types_left, matrix, avg_pi_matrix,
                   passed_sites, allele_counts, freqs, divisors>>

RunFoldSfs ==
    /\ args \in FoldSfsCalls
    /\ Ran("fold_sfs", fold_sfs_in_memory(caller_memory(args.arrays), dtype))

RunFixationMatrix ==
    /\ args \in FixationMatrixCalls
    /\ Ran("calculate_fixation_matrix",
           fixation_matrix_in_memory(caller_memory(args.arrays), args.min_freq,
                                     args.min_change, dtype))

RunNewSnpMatrix ==
    /\ args \in NewSnpMatrixCalls
    /\ Ran("calculate_new_snp_matrix",
           new_snp_matrix_in_memory(caller_memory(args.arrays), args.min_freq,
                                    args.max_freq, dtype))

RunPiMatrix ==
    /\ args \in PiMatrixCalls
    /\ Ran("calculate_pi_matrix", pi_matrix_in_memory(caller_memory(args.arrays), dtype))

RunSnpDifferencesBetween ==
    /\ args \in SnpDifferencesCalls
    /\ Ran("calculate_snp_differences_between",
           snp_differences_between_in_memory(caller_memory(args.arrays), args.i, args.j,
                                             args.min_freq, args.min_change, dtype))

RunSfsNaiveBinning ==
    /\ args \in SfsBinningCalls
    /\ Ran("estimate_sfs_naive_binning",
           sfs_naive_binning_in_memory(caller_memory(args.arrays), args.target_depth, dtype))

RunSfsDownsampling ==
    /\ args \in SfsDownsamplingCalls
    /\ Ran("estimate_sfs_downsampling",
           sfs_downsampling_in_memory(caller_memory(args.arrays), args.target_depth))

NextMemory ==
    \/ RunFoldSfs
    \/ RunFixationMatrix
    \/ RunNewSnpMatrix
    \/ RunPiMatrix
    \/ RunSnpDifferencesBetween
    \/ RunSfsNaiveBinning
    \/ RunSfsDownsampling

SpecMemory == InitMemory /\ [][NextMemory]_vars

----------------------------------------------------------------------------
(* calculate_phylogenetic_consistency *)

ConsistencySamples == 1..4

\* (genotype_matrix[:,idxs]*passed_sites_matrix[:,idxs]).sum(axis=1) at site s
cluster_prevalence(t, s, idxs) ==
    ISum([j \in SamplesOf(t) |->
            Bool(idxs[j]) * around(consensus_freq(t, s, j)) * Bool(depth(t, s, j) > 0)],
         SamplesOf(t))

\* (passed_sites_matrix[:,idxs]).sum(axis=1)-0.5 at site s
cluster_max_prevalence(t, s, idxs) ==
    RSub(FromInt(ISum([j \in SamplesOf(t) |-> Bool(idxs[j]) * Bool(depth(t, s, j) > 0)],
                      SamplesOf(t))), Half)

\* (prevalence>min_prevalence)*(prevalence<max_prevalence), with min_prevalence = 0.5
polymorphic_among(t, s, idxs) ==
    /\ RLt(Half, FromInt(cluster_prevalence(t, s, idxs)))
    /\ RLt(FromInt(cluster_prevalence(t, s, idxs)), cluster_max_prevalence(t, s, idxs))

inconsistent_sites_of_anticluster_alone(t, s, c) == polymorphic_among(t, s, c.anticluster_idxs)

\* inconsistent_sites = polymorphic_sites*(anticluster_prevalence>...)*(anticluster_prevalence<...)
inconsistent_sites(t, s, c) ==
    polymorphic_among(t, s, c.cluster_idxs) /\ polymorphic_among(t, s, c.anticluster_idxs)

\* num_polymorphic_sites, summed over the clusters
block_polymorphic_sites(t, clusters) ==
    ISum([k \in DOMAIN clusters |->
            ISum([s \in SitesOf(t) |-> Bool(polymorphic_among(t, s, clusters[k].cluster_idxs))],
                 SitesOf(t))], DOMAIN clusters)

\* num_inconsistent_sites, summed over the clusters
block_inconsistent_sites(t, clusters) ==
    ISum([k \in DOMAIN clusters |->
            ISum([s \in SitesOf(t) |-> Bool(inconsistent_sites(t, s, clusters[k]))],
                 SitesOf(t))], DOMAIN clusters)

\* the (gene, variant type) blocks the two loops reach and do not skip
consistency_blocks(acm, psm, allowed_variant_types, allowed_genes) ==
    {b \in UNION {{<<g, vt>> : vt \in DOMAIN psm[g]} : g \in restrict_genes(allowed_genes, psm)} :
        /\ b[2] \in restrict_variant_types(allowed_variant_types)
        /\ Len(acm[b[1]][b[2]].alleles) # 0}

\* return total_inconsistent_sites, total_polymorphic_sites
calculate_phylogenetic_consistency(acm, psm, clusters, allowed_variant_types, allowed_genes) ==
    LET B == consistency_blocks(acm, psm, allowed_variant_types, allowed_genes)
    IN  [total_inconsistent_sites |->
             ISum([b \in B |-> block_inconsistent_sites(acm[b[1]][b[2]].alleles, clusters)], B),
         total_polymorphic_sites |->
             ISum([b \in B |-> block_polymorphic_sites(acm[b[1]][b[2]].alleles, clusters)], B)]

\* one-site tensors of four samples with at most MaxCellDepth reads per sample
ConsistencyTensors == {<<row>> : row \in [ConsistencySamples -> ShallowCells]}

\* two sites: the first polymorphic among samples 1, 2 and among samples 3, 4,
\* the second polymorphic among samples 1, 2, 3 only
TwoSiteTensor ==
    << << <<2, 0>>, <<0, 1>>, <<1, 0>>, <<0, 3>> >>,
       << <<1, 0>>, <<1, 1>>, <<0, 0>>, <<0, 1>> >> >>

idxs_of(S) == [j \in ConsistencySamples |-> j \in S]
cluster_pair(S, A) == [cluster_idxs |-> idxs_of(S), anticluster_idxs |-> idxs_of(A)]

\* lists of (cluster, anticluster) pairs as cluster_samples returns them
ClusterLists ==
    {<<>>,
     <<cluster_pair({1, 2}, {3, 4})>>,
     <<cluster_pair({1, 2, 3}, {4})>>,
     <<cluster_pair({1, 2}, {3, 4}), cluster_pair({3, 4}, {1, 2})>>}

\* the routine reads the keys of passed_sites_map only
NoPassedSites == [j \in ConsistencySamples |-> [l \in ConsistencySamples |-> 0]]

ConsistencyMaps ==
    {[g1 |-> [4D |-> Block(t, NoPassedSites), 1D |-> Block(u, NoPassedSites)],
      g2 |-> [4D |-> Block(TwoSiteTensor, NoPassedSites)]] :
        t \in ConsistencyTensors, u \in {<<>>, TwoSiteTensor}}

\* <<allowed_variant_types, allowed_genes>>
ConsistencyAllowedChoices ==
    {<<{}, {}>>, <<{"4D"}, {}>>, <<{"4D"}, {"g1"}>>, <<{}, {"g2", "g9"}>>}

InitConsistency ==
    /\ pc = "start"
    /\ routine = None
    /\ dtype \in {"int64", "float64"}
    /\ \E bm \in ConsistencyMaps : \E clusters \in ClusterLists :
       \E al \in ConsistencyAllowedChoices :
           args = [allele_counts_map |-> allele_counts_map_of(bm),
                   passed_sites_map |-> passed_sites_map_of(bm),
                   clusters |-> clusters,
                   allowed_variant_types |-> al[1], allowed_genes |-> al[2]]
    /\ genes_left = {} /\ gene_name = None /\ types_left = {}
    /\ matrix = None /\ avg_pi_matrix = None /\ passed_sites = None
    /\ allele_counts = <<>>
    /\ freqs = <<>>
    /\ divisors = {}
    /\ locals = <<>>
    /\ ret = None

CallPhylogeneticConsistency ==
    /\ pc = "start"
    /\ pc' = "done"
    /\ routine' = "calculate_phylogenetic_consistency"
    /\ ret' = calculate_phylogenetic_consistency(args.allele_counts_map, args.passed_sites_map,
                  args.clusters, args.allowed_variant_types, args.allowed_genes)
    /\ UNCHANGED <<dtype, args, genes_left, gene_name, types_left, matrix, avg_pi_matrix,
                   passed_sites, allele_counts, freqs, divisors, locals>>

NextConsistency ==
    \/ CallPhylogeneticConsistency

SpecConsistency == InitConsistency /\ [][NextConsistency]_vars

----------------------------------------------------------------------------
(* calculate_rsquared_condition_freq *)

\* freqs = numpy.around(allele_counts[:,:,0]*1.0/(depths+(depths==0)))
consensus_genotype(t, s, j) == around(consensus_freq(t, s, j))

\* len(freqs[0])
num_all_samples(t, s) == Len(t[1])

\* pooled_freqs = freqs[:,:].sum(axis=1)/len(freqs[0])
pooled_freq(t, s) ==
    Rat(ISum([j \in SamplesOf(t) |-> consensus_genotype(t, s, j)], SamplesOf(t)),
        num_all_samples(t, s))

\* numpy.where(pooled_freqs > 0.5, 1-pooled_freqs, pooled_freqs)
folded_pooled_freq(t, s) ==
    IF RLt(Half, pooled_freq(t, s)) THEN RSub(One, pooled_freq(t, s)) ELSE pooled_freq(t, s)

\* passed_sites = (depths>0)*(pooled_freqs >= low_freq)[:,None]*(pooled_freqs <= high_freq)[:,None]
conditioned_passed_sites(t, low_freq, high_freq) ==
    [s \in SitesOf(t) |-> [j \in SamplesOf(t) |->
        Bool(depth(t, s, j) > 0) * Bool(RLe(low_freq, folded_pooled_freq(t, s)))
                                 * Bool(RLe(folded_pooled_freq(t, s), high_freq))]]

\* joint_passed_sites = passed_sites_1[None,:,:]*passed_sites_2[:,None,:]
joint_passed_sites_of(t1, t2, low_freq, high_freq) ==
    LET p1 == conditioned_passed_sites(t1, low_freq, high_freq)
        p2 == conditioned_passed_sites(t2, low_freq, high_freq)
    IN  [s2 \in SitesOf(t2) |-> [s1 \in SitesOf(t1) |-> [j \in SamplesOf(t1) |->
            p1[s1][j] * p2[s2][j]]]]

\* x *= (x>1e-10): every x here is a ratio of two sample counts, so that
\* x > 1e-10 exactly when x > 0
drop_rounding_noise(x) == IF RLt(Zero, x) THEN x ELSE Zero

\* (values*joint_passed_sites).sum(axis=2)/total_joint_passed_sites, where
\* total_joint_passed_sites has 1 added where it is 0
pooled_over_joint_passed(values, jp) ==
    LET total == ISum(jp, DOMAIN jp)
    IN  drop_rounding_noise(Rat(ISum([j \in DOMAIN jp |-> values[j] * jp[j]], DOMAIN jp),
                                total + Bool(total = 0)))

\* return rsquared_numerators, rsquared_denominators
calculate_rsquared_condition_freq(t1, t2, low_freq, high_freq) ==
    LET jps == joint_passed_sites_of(t1, t2, low_freq, high_freq)
        f1(s1) == [j \in SamplesOf(t1) |-> consensus_genotype(t1, s1, j)]
        f2(s2) == [j \in SamplesOf(t2) |-> consensus_genotype(t2, s2, j)]
        p_ab(s2, s1) == pooled_over_joint_passed(
                            [j \in SamplesOf(t1) |-> f1(s1)[j] * f2(s2)[j]], jps[s2][s1])
        p_a(s2, s1) == pooled_over_joint_passed(f1(s1), jps[s2][s1])
        p_b(s2, s1) == pooled_over_joint_passed(f2(s2), jps[s2][s1])
        diff(s2, s1) == RSub(p_ab(s2, s1), RMul(p_a(s2, s1), p_b(s2, s1)))
    IN  [rsquared_numerators |->
             [s2 \in SitesOf(t2) |-> [s1 \in SitesOf(t1) |-> RMul(diff(s2, s1), diff(s2, s1))]],
         rsquared_denominators |->
             [s2 \in SitesOf(t2) |-> [s1 \in SitesOf(t1) |->
                 RMul(RMul(p_a(s2, s1), RSub(One, p_a(s2, s1))),
                      RMul(p_b(s2, s1), RSub(One, p_b(s2, s1))))]]]

RsquaredSamples == 1..3

\* one-site tensors of three samples with at most MaxCellDepth reads per sample
RsquaredTensors == {<<row>> : row \in [RsquaredSamples -> ShallowCells]}

\* <<low_freq, high_freq>>
FreqRanges == {<<Zero, Half>>, <<Rat(1, 4), Half>>, <<Rat(2, 5), Half>>}

InitRsquared ==
    /\ pc = "start"
    /\ routine = None
    /\ dtype = "int64"
    /\ \E t1 \in RsquaredTensors : \E t2 \in RsquaredTensors : \E fr \in FreqRanges :
           args = [allele_counts_1 |-> t1, allele_counts_2 |-> t2,
                   low_freq |-> fr[1], high_freq |-> fr[2]]
    /\ genes_left = {} /\ gene_name = None /\ types_left = {}
    /\ matrix = None /\ avg_pi_matrix = None /\ passed_sites = None
    /\ allele_counts = <<>>
    /\ freqs = <<>>
    /\ divisors = {}
    /\ locals = <<>>
    /\ ret = None

CallRsquaredConditionFreq ==
    /\ pc = "start"
    /\ pc' = "done"
    /\ routine' = "calculate_rsquared_condition_freq"
    /\ locals' = [joint_passed_sites |->
                      joint_passed_sites_of(args.allele_counts_1, args.allele_counts_2,
                                            args.low_freq, args.high_freq)]
    /\ ret' = calculate_rsquared_condition_freq(args.allele_counts_1, args.allele_counts_2,
                                                args.low_freq, args.high_freq)
    /\ UNCHANGED <<dtype, args, genes_left, gene_name, types_left, matrix, avg_pi_matrix,
                   passed_sites, allele_counts, freqs, divisors>>

NextRsquared ==
    \/ CallRsquaredConditionFreq

SpecRsquared == InitRsquared /\ [][NextRsquared]_vars

----------------------------------------------------------------------------
(* calculate_sample_freqs *)

\* freqs = allele_counts[:,:,0]/(depths+(depths==0))
\* if fold == True: freqs = numpy.fmin(freqs,1-freqs)
sample_freq(t, s, j, fold, dt) ==
    LET f == alt_freq(t, s, j, dt)
    IN  IF fold THEN RMin(f, RSub(One, f)) ELSE f

\* gene_freqs[gene_freqs>0], with gene_freqs = freqs[:,sample_idx]
positive_gene_freqs(t, j, fold, dt) ==
    SelectSeq([s \in SitesOf(t) |-> sample_freq(t, s, j, fold, dt)],
              LAMBDA x : RLt(Zero, x))

\* numpy.diagonal(passed_sites_map[gene_name][variant_type]['sites'])
diagonal(P) == [j \in DOMAIN P |-> P[j][j]]

\* <<variant_type, allowed_genes (None for the default), fold>>
SampleFreqsParams ==
    {"1D", "4D"} \X {[is_None |-> TRUE, genes |-> {}],
                     [is_None |-> FALSE, genes |-> {"g1"}],
                     [is_None |-> FALSE, genes |-> {"g1", "g2"}]} \X BOOLEAN

InitSampleFreqs ==
    /\ pc = "start"
    /\ routine = None
    /\ dtype \in {"int64", "float64"}
    /\ \E bm \in [{"g1", "g2"} -> [{"1D", "4D"} -> SmallBlocks]] : \E p \in SampleFreqsParams :
           args = [allele_counts_map |-> allele_counts_map_of(bm),
                   passed_sites_map |-> passed_sites_map_of(bm),
                   variant_type |-> p[1], allowed_genes |-> p[2], fold |-> p[3]]
    /\ genes_left = {} /\ gene_name = None /\ types_left = {}
    /\ matrix = None /\ avg_pi_matrix = None /\ passed_sites = None
    /\ allele_counts = <<>>
    /\ freqs = <<>>
    /\ divisors = {}
    /\ locals = <<>>
    /\ ret = None

\* lines 312-317: the default of allowed_genes, the empty lists and the zeros
CallSampleFreqs ==
    /\ pc = "start"
    /\ pc' = "loop"
    /\ routine' = "calculate_sample_freqs"
    /\ genes_left' = IF args.allowed_genes.is_None THEN DOMAIN args.passed_sites_map
                     ELSE args.allowed_genes.genes
    /\ locals' = [sample_freqs |-> [j \in Samples |-> <<>>]]
    /\ passed_sites' = [j \in Samples |-> 0]
    /\ UNCHANGED <<dtype, args, gene_name, types_left, matrix, avg_pi_matrix,
                   allele_counts, freqs, divisors, ret>>

\* lines 319-324: an iteration of the loop over allowed_genes that meets an
\* empty allele tensor
SkipEmptyGene ==
    /\ pc = "loop"
    /\ routine = "calculate_sample_freqs"
    /\ \E g \in genes_left :
        /\ Len(args.allele_counts_map[g][args.variant_type].alleles) = 0
        /\ genes_left' = genes_left \ {g}
        /\ gene_name' = g
        /\ allele_counts' = args.allele_counts_map[g][args.variant_type].alleles
    /\ UNCHANGED <<pc, routine, dtype, args, types_left, matrix, avg_pi_matrix,
                   passed_sites, freqs, divisors, locals, ret>>

\* lines 319-334: an iteration of the loop over allowed_genes otherwise
VisitSampleFreqs ==
    /\ pc = "loop"
    /\ routine = "calculate_sample_freqs"
    /\ \E g \in genes_left :
        LET ac == args.allele_counts_map[g][args.variant_type].alleles
            P == args.passed_sites_map[g][args.variant_type].sites
        IN  /\ Len(ac) # 0
            /\ genes_left' = genes_left \ {g}
            /\ gene_name' = g
            /\ allele_counts' = ac
            /\ locals' = [sample_freqs |->
                   [j \in Samples |-> locals.sample_freqs[j]
                                        \o positive_gene_freqs(ac, j, args.fold, dtype)]]
            /\ passed_sites' = [j \in Samples |-> passed_sites[j] + diagonal(P)[j]]
    /\ UNCHANGED <<pc, routine, dtype, args, types_left, matrix, avg_pi_matrix,
                   freqs, divisors, ret>>

\* return sample_freqs, passed_sites
ReturnSampleFreqs ==
    /\ pc = "loop"
    /\ routine = "calculate_sample_freqs"
    /\ genes_left = {}
    /\ pc' = "done"
    /\ ret' = [sample_freqs |-> locals.sample_freqs, passed_sites |-> passed_sites]
    /\ UNCHANGED <<routine, dtype, args, genes_left, gene_name, types_left, matrix,
                   avg_pi_matrix, passed_sites, allele_counts, freqs, divisors, locals>>

NextSampleFreqs ==
    \/ CallSampleFreqs
    \/ SkipEmptyGene
    \/ VisitSampleFreqs
    \/ ReturnSampleFreqs

SpecSampleFreqs == InitSampleFreqs /\ [][NextSampleFreqs]_vars

----------------------------------------------------------------------------
(* Claims *)

Returned(r) == pc = "done" /\ routine = r

\* the consensus call of one (site, sample): the alternate allele holds the
\* strict majority of the reads
MajorityAlt(t, s, j) == IF t[s][j][1] > t[s][j][2] THEN 1 ELSE 0

KeptSites(t) ==
    {s \in SitesOf(t) :
        LET prevalence == Cardinality({j \in SamplesOf(t) : MajorityAlt(t, s, j) = 1})
            cov == Cardinality({j \in SamplesOf(t) : t[s][j][1] + t[s][j][2] > 0})
        IN  2 * prevalence > 1 /\ 2 * prevalence < 2 * cov - 1}

\* C1: calculate_consensus_genotypes returns, in the original site order,
\* exactly the sites whose prevalence (number of samples whose rounded
\* alt-allele frequency is 1; a sample without reads adds 0 and is passed=False)
\* is strictly above 0.5 and strictly below (covered samples - 0.5); the other
\* sites are dropped from both matrices; the worked example keeps its site with
\* genotype row [1,0,1,1].
C1_ConsensusKeepsPolymorphicSites ==
    Returned("calculate_consensus_genotypes") =>
        LET t == args.allele_counts_matrix
            kept == KeptSites(t)
            pos(s) == Cardinality({u \in kept : u <= s})
        IN  /\ Len(ret.genotype_matrix) = Cardinality(kept)
            /\ Len(ret.passed_sites_matrix) = Cardinality(kept)
            /\ \A s \in kept :
                /\ ret.genotype_matrix[pos(s)] = [j \in SamplesOf(t) |-> MajorityAlt(t, s, j)]
                /\ ret.passed_sites_matrix[pos(s)] =
                       [j \in SamplesOf(t) |-> t[s][j][1] + t[s][j][2] > 0]
            /\ t = WorkedExample => ret.genotype_matrix = << <<1, 0, 1, 1>> >>

\* a two-site tensor both of whose sites are kept, with different genotype
\* rows (so that their order shows), one of them although a sample has no reads
C1_Witness ==
    /\ Returned("calculate_consensus_genotypes")
    /\ Len(args.allele_counts_matrix) = 2
    /\ KeptSites(args.allele_counts_matrix) = {1, 2}
    /\ \E j \in Samples : depth(args.allele_counts_matrix, 1, j) = 0
    /\ Len(ret.genotype_matrix) = 2
    /\ ret.genotype_matrix[1] # ret.genotype_matrix[2]

InLoopOf(rs) == routine \in rs /\ pc \in {"loop", "gene", "done"}

\* C2: at every call site of the masked ratio count/(depth+[depth==0]) the
\* frequency computed is exactly count/depth where depth > 0 and exactly 0
\* where depth = 0.
C2_MaskedRatioIsExact ==
    (/\ InLoopOf({"calculate_fixation_matrix", "calculate_new_snp_matrix",
                  "calculate_pi_matrix", "calculate_pooled_freqs"})
     /\ Len(allele_counts) > 0) =>
        \A s \in SitesOf(allele_counts), j \in SamplesOf(allele_counts) :
            freqs[s][j] = IF depth(allele_counts, s, j) > 0
                          THEN Rat(allele_counts[s][j][1], depth(allele_counts, s, j))
                          ELSE Zero

\* C3: no statistics routine divides by zero.
C3_NoZeroDivisor == 0 \notin divisors

\* the (gene, variant type) blocks the loops of the call visit
AllowedBlocks ==
    {b \in (DOMAIN args.passed_sites_map) \X DefaultVariantTypes :
        /\ b[1] \in args.allowed_genes
        /\ b[2] \in DOMAIN args.passed_sites_map[b[1]]
        /\ b[2] \in args.allowed_variant_types}

\* the blocks whose iteration is over
VisitedBlocks ==
    {b \in AllowedBlocks :
        /\ b[1] \notin genes_left
        /\ ~(pc = "gene" /\ b[1] = gene_name /\ b[2] \in types_left)}

BlockAlleles(b) == args.allele_counts_map[b[1]][b[2]].alleles
BlockSites(b) == args.passed_sites_map[b[1]][b[2]].sites

RECURSIVE SumOfSites(_)
SumOfSites(B) ==
    IF B = {} THEN IZeroMatrix(ZeroMatrix)
    ELSE LET b == CHOOSE x \in B : TRUE IN IMAdd(SumOfSites(B \ {b}), BlockSites(b))

\* the contribution of block b to the statistic of routine r called with a
StatisticOf(r, a, b) ==
    CASE r = "calculate_fixation_matrix" ->
            fixation_contribution(BlockAlleles(b), a.min_freq, a.min_change, dtype)
      [] r = "calculate_new_snp_matrix" ->
            new_snp_contribution(BlockAlleles(b), a.min_freq, a.max_freq, dtype)
      [] r = "calculate_pi_matrix" -> gene_pi_matrix(BlockAlleles(b), dtype)
      [] r = "avg_pi" -> gene_avg_pi_matrix(BlockAlleles(b), dtype)
      [] r = "between_pi" -> pi_matrix_without_diagonal_fix(BlockAlleles(b), dtype)

RECURSIVE SumOfStatistic(_, _, _)
SumOfStatistic(r, a, B) ==
    IF B = {} THEN ZeroMatrix
    ELSE LET b == CHOOSE x \in B : TRUE
         IN  IF Len(BlockAlleles(b)) = 0 THEN SumOfStatistic(r, a, B \ {b})
             ELSE MAdd(SumOfStatistic(r, a, B \ {b}), StatisticOf(r, a, b))

Accumulators == {"calculate_fixation_matrix", "calculate_new_snp_matrix", "calculate_pi_matrix"}

ReturnedStatistic ==
    CASE routine = "calculate_fixation_matrix" -> ret.fixation_matrix
      [] routine = "calculate_new_snp_matrix" -> ret.new_snp_matrix
      [] routine = "calculate_pi_matrix" -> ret.pi_matrix

\* C4: the passed-sites total returned by calculate_pi_matrix,
\* calculate_fixation_matrix and calculate_new_snp_matrix is the plain sum of
\* the passed-sites matrices of all allowed blocks, the blocks without sites
\* included, and the statistic returned is the plain sum of the contributions
\* of the blocks that hold sites: nothing is divided by the passed sites.
C4_PassedSitesOfEveryAllowedBlock ==
    (pc = "done" /\ routine \in Accumulators) =>
        /\ ret.passed_sites = SumOfSites(AllowedBlocks)
        /\ ReturnedStatistic = SumOfStatistic(routine, args, AllowedBlocks)

\* an allowed block without sites has been visited, and a disallowed one skipped
C4_Witness ==
    /\ pc = "done" /\ routine \in Accumulators
    /\ \E b \in AllowedBlocks : Len(BlockAlleles(b)) = 0
    /\ \E b \in AllowedBlocks : Len(BlockAlleles(b)) > 0
    /\ \E g \in DOMAIN args.passed_sites_map : <<g, "1D">> \notin AllowedBlocks
    /\ ret.passed_sites = SumOfSites(AllowedBlocks)

\* C5: whatever the order in which the loops take the blocks, the accumulators
\* hold the sum over the set of blocks visited so far, so the final pair
\* (statistic, passed sites) is the same for every order.
C5_AccumulatorsDependOnVisitedSetOnly ==
    InLoopOf(Accumulators) =>
        /\ passed_sites = SumOfSites(VisitedBlocks)
        /\ matrix = SumOfStatistic(routine, args, VisitedBlocks)
        /\ routine = "calculate_pi_matrix" =>
               avg_pi_matrix = SumOfStatistic("avg_pi", args, VisitedBlocks)

\* half-way through: two blocks with different contributions are visited, two are not
C5_Witness ==
    /\ InLoopOf(Accumulators)
    /\ Cardinality(VisitedBlocks) = 2
    /\ Cardinality(AllowedBlocks) = 4
    /\ \E b, c \in VisitedBlocks : BlockAlleles(b) # BlockAlleles(c) /\ Len(BlockAlleles(b)) > 0
    /\ matrix # ZeroMatrix

\* the number of sites of the allowed blocks at which samples j and l are both
\* covered and their clamped alt-allele frequencies differ by min_change or more
RECURSIVE QualifyingSites(_, _, _)
QualifyingSites(B, j, l) ==
    IF B = {} THEN 0
    ELSE LET b == CHOOSE x \in B : TRUE
             t == BlockAlleles(b)
         IN  QualifyingSites(B \ {b}, j, l) +
             Cardinality({s \in SitesOf(t) :
                 /\ depth(t, s, j) > 0 /\ depth(t, s, l) > 0
                 /\ RLe(args.min_change,
                        RAbs(RSub(clamp(consensus_freq(t, s, j), args.min_freq),
                                  clamp(consensus_freq(t, s, l), args.min_freq))))})

\* C6: entry [j,l] of the matrix calculate_fixation_matrix returns is the
\* number of sites at which j and l are both covered and the clamped alt-allele
\* frequencies differ by at least min_change (stated for float arrays, where
\* the frequencies are the exact ratios).
C6_FixationMatrixCountsSites ==
    (Returned("calculate_fixation_matrix") /\ dtype = "float64") =>
        \A j, l \in Samples :
            ret.fixation_matrix[j][l] = FromInt(QualifyingSites(AllowedBlocks, j, l))

\* C7: the matrices calculate_fixation_matrix and calculate_new_snp_matrix
\* return are symmetric and have no negative entry.
C7_SymmetricNonNegative ==
    (pc = "done" /\ routine \in {"calculate_fixation_matrix", "calculate_new_snp_matrix"}) =>
        \A j, l \in Samples :
            /\ ReturnedStatistic[j][l] = ReturnedStatistic[l][j]
            /\ RLe(Zero, ReturnedStatistic[j][l])

\* calculate_new_snp_matrix has returned a matrix with a positive entry and a
\* zero entry off the diagonal
C7_Witness ==
    /\ Returned("calculate_new_snp_matrix")
    /\ \E j, l \in Samples : j # l /\ RLt(Zero, ret.new_snp_matrix[j][l])
    /\ \E j, l \in Samples : j # l /\ ret.new_snp_matrix[j][l] = Zero

\* the parameter pairs whose interval [min_freq, max_freq] lies within that of a
Narrowed(a) ==
    {p \in NewSnpParams : RLe(a.min_freq, p[1]) /\ RLe(p[2], a.max_freq) /\ RLe(p[1], p[2])}

NewSnpTotal(p) ==
    SumOfStatistic("calculate_new_snp_matrix",
                   [args EXCEPT !.min_freq = p[1], !.max_freq = p[2]], AllowedBlocks)

\* C8 as stated: narrowing [min_freq, max_freq] never increases an entry of the
\* new-polymorphism matrix.
C8_NarrowingNeverIncreases ==
    Returned("calculate_new_snp_matrix") =>
        \A p \in Narrowed(args) : \A j, l \in Samples :
            RLe(NewSnpTotal(p)[j][l], ret.new_snp_matrix[j][l])

\* C8 amended: narrowing [min_freq, max_freq] (raising min_freq, lowering
\* max_freq) never decreases an entry of the new-polymorphism matrix: a sample
\* is rare below min_freq and common above max_freq, so a narrower interval
\* makes more samples rare and more samples common.
C8_NarrowingNeverDecreases ==
    Returned("calculate_new_snp_matrix") =>
        \A p \in Narrowed(args) : \A j, l \in Samples :
            RLe(ret.new_snp_matrix[j][l], NewSnpTotal(p)[j][l])

\* the returned matrix counts a site, and a strictly narrower interval counts
\* that site still and a site the returned matrix does not count
C8_Witness ==
    /\ Returned("calculate_new_snp_matrix")
    /\ \E p \in Narrowed(args) :
        /\ p # <<args.min_freq, args.max_freq>>
        /\ \E j, l \in Samples :
               /\ RLt(Zero, ret.new_snp_matrix[j][l])
               /\ RLe(ret.new_snp_matrix[j][l], NewSnpTotal(p)[j][l])
        /\ \E j, l \in Samples : RLt(ret.new_snp_matrix[j][l], NewSnpTotal(p)[j][l])

\* the one-sided leave-one-out self-diversity sum of sample j over the blocks
RECURSIVE SelfDiversity(_, _)
SelfDiversity(B, j) ==
    IF B = {} THEN Zero
    ELSE LET b == CHOOSE x \in B : TRUE
             t == BlockAlleles(b)
         IN  RAdd(SelfDiversity(B \ {b}, j),
                  RSum([s \in SitesOf(t) |->
                          IF depth(t, s, j) = 0 THEN Zero
                          ELSE RSub(One,
                                    RSum([k \in Alleles |->
                                            RMul(pi_freq(t, s, j, k, dtype),
                                                 self_freq(t, s, j, k, dtype))], Alleles))],
                       SitesOf(t)))

\* C9: the pi matrix calculate_pi_matrix returns is symmetric off the diagonal,
\* and its diagonal is the diagonal of the average-pi matrix returned: the
\* average of the two one-sided self-diversity sums of the sample.
C9_PiSymmetricWithSelfDiagonal ==
    Returned("calculate_pi_matrix") =>
        /\ \A j, l \in Samples : j # l => ret.pi_matrix[j][l] = ret.pi_matrix[l][j]
        /\ \A j \in Samples :
            /\ ret.pi_matrix[j][j] = ret.avg_pi_matrix[j][j]
            /\ ret.pi_matrix[j][j] =
                   RMul(Half, RAdd(SelfDiversity(AllowedBlocks, j),
                                   SelfDiversity(AllowedBlocks, j)))

\* a sample whose self-diversity differs from its between-sample formula
C9_Witness ==
    /\ Returned("calculate_pi_matrix")
    /\ \E j \in Samples :
        /\ ret.pi_matrix[j][j] # Zero
        /\ ret.pi_matrix[j][j] #
               SumOfStatistic("between_pi", args, AllowedBlocks)[j][j]
    /\ \E j, l \in Samples : j # l /\ ret.pi_matrix[j][l] # Zero

\* C10: the length of fold_sfs(spectrum) is ceil(len(spectrum)/2).
C10_FoldedLengthIsCeiling ==
    (Returned("fold_sfs") /\ "folded_fs" \in DOMAIN ret) =>
        Len(ret.folded_fs) = (Len(args.fs) + 1) \div 2

\* the middle bin of a spectrum of odd length is its own mirror bin
MiddleBin(fs) == IF Len(fs) % 2 = 1 THEN fs[(Len(fs) + 1) \div 2] ELSE 0

NonMiddleSum(fs) == ISum(fs, DOMAIN fs) - MiddleBin(fs)

\* C11: the folded spectrum sums to the counts of all non-middle bins of the
\* spectrum plus the middle bin's contribution (kept, halved or left out): no
\* count of a non-middle bin is lost or counted twice (stated for float
\* spectra, which are halved exactly).
C11_FoldedSumKeepsNonMiddleBins ==
    (Returned("fold_sfs") /\ "folded_fs" \in DOMAIN ret /\ dtype = "float64") =>
        RSub(RSum(ret.folded_fs, DOMAIN ret.folded_fs), FromInt(NonMiddleSum(args.fs)))
            \in {Zero, Rat(MiddleBin(args.fs), 2), FromInt(MiddleBin(args.fs))}

ReturnedClusters == Returned("cluster_samples") /\ "clusters" \in DOMAIN ret

Members(mask) == {i \in SampleIdxs : mask[i]}

\* C12: every returned cluster has at least two members, the clusters are in
\* order of non-increasing size, and no sample belongs to two of them.
C12_ClustersLargeSortedDisjoint ==
    ReturnedClusters =>
        /\ \A r \in DOMAIN ret.clusters : Cardinality(Members(ret.clusters[r].cluster_idxs)) >= 2
        /\ \A r, q \in DOMAIN ret.clusters :
               r < q => Cardinality(Members(ret.clusters[r].cluster_idxs))
                            >= Cardinality(Members(ret.clusters[q].cluster_idxs))
        /\ \A r, q \in DOMAIN ret.clusters :
               r # q => Members(ret.clusters[r].cluster_idxs)
                            \cap Members(ret.clusters[q].cluster_idxs) = {}

\* two clusters of different sizes are returned
C12_Witness ==
    /\ ReturnedClusters
    /\ Len(ret.clusters) = 2
    /\ Cardinality(Members(ret.clusters[1].cluster_idxs)) = 3
    /\ Cardinality(Members(ret.clusters[2].cluster_idxs)) = 2

InKeptCluster(i) == \E r \in DOMAIN ret.clusters : ret.clusters[r].cluster_idxs[i]

\* C13 as stated: the anticluster of a returned cluster is the set of samples
\* of the other returned clusters; a sample of no returned cluster is in no
\* anticluster.
C13_AnticlusterIsOtherKeptClusters ==
    ReturnedClusters =>
        \A r \in DOMAIN ret.clusters : \A i \in SampleIdxs :
            ret.clusters[r].anticluster_idxs[i]
                <=> (InKeptCluster(i) /\ ~ret.clusters[r].cluster_idxs[i])

SubclusterLabels(c) ==
    {locals.subcluster_assignments[i] : i \in {i \in SampleIdxs : locals.cluster_assignments[i] = c}}

\* C14: when no coarse cluster keeps more than one member, cluster_samples
\* returns an empty list of clusters and raises no error.
C14_EmptyResultNotError ==
    (Returned("cluster_samples")
        /\ \A i \in SampleIdxs : Cardinality(SubclusterLabels(locals.cluster_assignments[i])) <= 1)
    => ret = [clusters |-> <<>>]

CoarseCluster(c) == {i \in SampleIdxs : locals.cluster_assignments[i] = c}

\* the lowest-indexed sample of each subcluster label occurring in coarse cluster c
Representatives(c) ==
    {i \in CoarseCluster(c) :
        \A h \in CoarseCluster(c) :
            locals.subcluster_assignments[h] = locals.subcluster_assignments[i] => i <= h}

ReturnedMemberSets ==
    IF "clusters" \in DOMAIN ret
    THEN {Members(ret.clusters[r].cluster_idxs) : r \in DOMAIN ret.clusters}
    ELSE {}

\* C17: the members of a returned cluster are the lowest-indexed samples of the
\* distinct subcluster labels of one coarse cluster, so they carry pairwise
\* distinct subcluster labels; a coarse cluster is returned exactly if it holds
\* more than one distinct subcluster label.
C17_OneRepresentativePerSubcluster ==
    Returned("cluster_samples") =>
        /\ \A M \in ReturnedMemberSets :
               /\ \E i \in SampleIdxs : M = Representatives(locals.cluster_assignments[i])
               /\ \A i, h \in M :
                      locals.subcluster_assignments[i] = locals.subcluster_assignments[h] => i = h
        /\ "clusters" \in DOMAIN ret =>
               \A i \in SampleIdxs :
                   Representatives(locals.cluster_assignments[i]) \in ReturnedMemberSets
                       <=> Cardinality(SubclusterLabels(locals.cluster_assignments[i])) > 1

\* a returned cluster one of whose subclusters holds several samples, next to a
\* coarse cluster of a single subcluster that is not returned
C17_Witness ==
    /\ ReturnedClusters
    /\ \E i, h \in SampleIdxs :
           /\ i < h
           /\ locals.cluster_assignments[i] = locals.cluster_assignments[h]
           /\ locals.subcluster_assignments[i] = locals.subcluster_assignments[h]
           /\ InKeptCluster(i)
    /\ \E i \in SampleIdxs :
           /\ Cardinality(SubclusterLabels(locals.cluster_assignments[i])) = 1
           /\ ~InKeptCluster(i)

\* C15: calling calculate_consensus_genotypes on the tensor built from its own
\* output returns the same genotype matrix and the same passed mask, and drops
\* no site.
C15_ConsensusIsIdempotent ==
    (Returned("calculate_consensus_genotypes") /\ "called" \in DOMAIN locals) =>
        /\ ret.genotype_matrix = locals.called.genotype_matrix
        /\ ret.passed_sites_matrix = locals.called.passed_sites_matrix
        /\ Len(ret.genotype_matrix) = Len(args.allele_counts_matrix)

\* the second call has returned a site that one sample does not cover
C15_Witness ==
    /\ Returned("calculate_consensus_genotypes")
    /\ "called" \in DOMAIN locals
    /\ \E s \in DOMAIN ret.passed_sites_matrix : \E j \in DOMAIN ret.passed_sites_matrix[s] :
           ~ret.passed_sites_matrix[s][j]

\* C16: when a call has run to its end, every array the caller handed in holds
\* what it held before the call.
C16_InputsUnchanged ==
    (pc = "done" /\ "heap" \in DOMAIN locals) =>
        \A a \in DOMAIN args.arrays : locals.heap[a] = args.arrays[a]

\* the call agrees with the routine computed as a function of its arguments
MemoryAgreesWithFunction ==
    (pc = "done" /\ "heap" \in DOMAIN locals) =>
        /\ routine = "fold_sfs" =>
               ret = fold_sfs(args.arrays.fs, dtype)
        /\ routine = "calculate_fixation_matrix" =>
               /\ ret.passed_sites = args.arrays.sites
               /\ ret.fixation_matrix =
                      IF Len(args.arrays.alleles) = 0 THEN ZeroMatrix
                      ELSE fixation_contribution(args.arrays.alleles, args.min_freq,
                                                 args.min_change, dtype)
        /\ routine = "calculate_new_snp_matrix" =>
               /\ ret.passed_sites = args.arrays.sites
               /\ ret.new_snp_matrix =
                      IF Len(args.arrays.alleles) = 0 THEN ZeroMatrix
                      ELSE new_snp_contribution(args.arrays.alleles, args.min_freq,
                                                args.max_freq, dtype)
        /\ routine = "calculate_pi_matrix" =>
               /\ ret.passed_sites = args.arrays.sites
               /\ ret.pi_matrix =
                      IF Len(args.arrays.alleles) = 0 THEN ZeroMatrix
                      ELSE gene_pi_matrix(args.arrays.alleles, dtype)
               /\ ret.avg_pi_matrix =
                      IF Len(args.arrays.alleles) = 0 THEN ZeroMatrix
                      ELSE gene_avg_pi_matrix(args.arrays.alleles, dtype)

\* a call whose in-place clamping changed the frequencies it had just computed
C16_Witness ==
    /\ pc = "done"
    /\ routine = "calculate_fixation_matrix"
    /\ "heap" \in DOMAIN locals
    /\ Len(args.arrays.alleles) > 0
    /\ locals.heap["line 436"] # alt_freqs(args.arrays.alleles, dtype)

\* site s of tensor t is polymorphic among the samples S: the number of covered
\* samples of S whose consensus allele is the alternate one lies strictly
\* between 0.5 and the number of covered samples of S minus 0.5
PolymorphicAmong(t, s, S) ==
    LET cov == {j \in S : t[s][j][1] + t[s][j][2] > 0}
        prevalence == Cardinality({j \in cov : MajorityAlt(t, s, j) = 1})
    IN  2 * prevalence > 1 /\ 2 * prevalence < 2 * Cardinality(cov) - 1

MaskMembers(idxs) == {j \in DOMAIN idxs : idxs[j]}

\* the (gene, variant type, cluster, site) of every allowed block
ConsistencyTriples ==
    LET genes == IF args.allowed_genes = {} THEN DOMAIN args.passed_sites_map
                 ELSE args.allowed_genes \cap DOMAIN args.passed_sites_map
        types == IF args.allowed_variant_types = {} THEN {"1D", "2D", "3D", "4D"}
                 ELSE args.allowed_variant_types
    IN  UNION {UNION {{<<g, vt, k, s>> :
                          k \in DOMAIN args.clusters,
                          s \in DOMAIN args.allele_counts_map[g][vt].alleles} :
                      vt \in DOMAIN args.passed_sites_map[g] \cap types} :
               g \in genes}

PolymorphicTriples ==
    {x \in ConsistencyTriples :
        PolymorphicAmong(args.allele_counts_map[x[1]][x[2]].alleles, x[4],
                         MaskMembers(args.clusters[x[3]].cluster_idxs))}

\* C18: calculate_phylogenetic_consistency returns the number of (block,
\* cluster, site) triples polymorphic among the cluster's covered samples, and
\* the number of those that are also polymorphic among the anticluster's
\* covered samples, which is never the larger; blocks of a disallowed gene or
\* variant type and empty tensors add nothing.
C18_ConsistencyCountsTriples ==
    Returned("calculate_phylogenetic_consistency") =>
        /\ ret.total_polymorphic_sites = Cardinality(PolymorphicTriples)
        /\ ret.total_inconsistent_sites =
               Cardinality({x \in PolymorphicTriples :
                   PolymorphicAmong(args.allele_counts_map[x[1]][x[2]].alleles, x[4],
                                    MaskMembers(args.clusters[x[3]].anticluster_idxs))})
        /\ ret.total_inconsistent_sites <= ret.total_polymorphic_sites

\* some but not all polymorphic triples are inconsistent, while a non-empty
\* block of a disallowed variant type is skipped
C18_Witness ==
    /\ Returned("calculate_phylogenetic_consistency")
    /\ 0 < ret.total_inconsistent_sites
    /\ ret.total_inconsistent_sites < ret.total_polymorphic_sites
    /\ args.allowed_variant_types = {"4D"}
    /\ Len(args.allele_counts_map["g1"]["1D"].alleles) > 0

\* the consensus allele frequency of site s averaged across the samples that
\* cover it, folded: min(f, 1-f)
FoldedCoveredFrequency(t, s) ==
    LET cov == {j \in SamplesOf(t) : t[s][j][1] + t[s][j][2] > 0}
        alt == Cardinality({j \in cov : MajorityAlt(t, s, j) = 1})
        n == IF cov = {} THEN 1 ELSE Cardinality(cov)
    IN  RMin(Rat(alt, n), Rat(n - alt, n))

InFreqRange(x) == RLe(args.low_freq, x) /\ RLe(x, args.high_freq)

\* C19: in calculate_rsquared_condition_freq a (site pair, sample) entry
\* contributes to the joint and marginal frequencies only if the sample is
\* covered at both sites and the folded pooled frequency of each site, averaged
\* across the samples covering that site, lies in [low_freq, high_freq].
C19_ContributesOnlyWithinCoveredFrequencyRange ==
    Returned("calculate_rsquared_condition_freq") =>
        \A s2 \in SitesOf(args.allele_counts_2) : \A s1 \in SitesOf(args.allele_counts_1) :
        \A j \in RsquaredSamples :
            locals.joint_passed_sites[s2][s1][j] = 1 =>
                /\ args.allele_counts_1[s1][j][1] + args.allele_counts_1[s1][j][2] > 0
                /\ args.allele_counts_2[s2][j][1] + args.allele_counts_2[s2][j][2] > 0
                /\ InFreqRange(FoldedCoveredFrequency(args.allele_counts_1, s1))
                /\ InFreqRange(FoldedCoveredFrequency(args.allele_counts_2, s2))

\* the genes calculate_sample_freqs is asked to visit
SampleFreqsAllowedGenes ==
    IF args.allowed_genes.is_None THEN DOMAIN args.passed_sites_map
    ELSE args.allowed_genes.genes

\* C20: the passed-sites vector returned by calculate_sample_freqs is the sum,
\* over every allowed gene, of the diagonal of the gene's passed-sites matrix
\* for the requested variant type, genes with an empty allele tensor included.
C20_PassedSitesSumsEveryAllowedGene ==
    Returned("calculate_sample_freqs") =>
        \A j \in Samples :
            ret.passed_sites[j] =
                ISum([g \in SampleFreqsAllowedGenes |->
                         args.passed_sites_map[g][args.variant_type].sites[j][j]],
                     SampleFreqsAllowedGenes)

====
